---- MODULE Spec2Model ----
(***************************************************************************)
(* TenantBridge data-access layer: the row-level-security context helpers  *)
(* (src/lib/db/utils.ts), the storage policies (rls-setup.sql) and the     *)
(* entity services (buildings, contracts, tickets, consumption, documents) *)
(* as a state machine over the database tables and the connection pool.    *)
(*                                                                         *)
(* A query is modelled by the rows its WHERE clause admits among the rows  *)
(* the storage policy lets the connection see.  LEFT JOINs only decorate   *)
(* a row and never remove one, so they are not modelled; ORDER BY is not   *)
(* modelled (results are sets of rows); limit/offset keep their defaults   *)
(* (50 / 0), which exceed every table bound used here.                     *)
(***************************************************************************)
EXTENDS Integers, FiniteSets, Sequences, TLC

\* ------------------------------------------------------------------ bounds
MaxBuildings == 2   \* rows the buildings table may hold
MaxTickets == 2     \* rows the tickets table may hold
MaxRecords == 2     \* rows the consumption_records table may hold
MaxDocuments == 1   \* rows the documents table may hold
MaxContracts == 2   \* rows ContractService.create may add
MaxLinks == 2       \* rows the tenant_contracts table may hold
MaxClock == 2       \* number of ticket updates (each one advances the clock)
MaxUpdatedTickets == 1   \* tickets present while updates are explored
NumConns == 2       \* connections in the pool
MaxNewUsers == 1    \* rows tenant onboarding may add to the users table
MaxBatch == 2       \* records in one createBulkConsumptionRecords call

\* ------------------------------------------------------------- value sets
NULL == "null"                       \* SQL NULL / an omitted (undefined) argument
ZeroUUID == "00000000"               \* '00000000-0000-0000-0000-000000000000'
Orgs == {"orgA", "orgB"}
Roles == {"landlord_admin", "tenant"}
Conns == 1..NumConns
Reqs == {"r1", "r2"}

\* The users present before the run.
SeedUsers ==
  { [id |-> "adminA", organizationId |-> "orgA", role |-> "landlord_admin",
     email |-> "adminA@x", isActive |-> TRUE],
    [id |-> "t1", organizationId |-> "orgA", role |-> "tenant",
     email |-> "t1@x", isActive |-> TRUE],
    [id |-> "t2", organizationId |-> "orgA", role |-> "tenant",
     email |-> "t2@x", isActive |-> TRUE],
    [id |-> "adminB", organizationId |-> "orgB", role |-> "landlord_admin",
     email |-> "adminB@x", isActive |-> TRUE] }

\* The organizations present before the run.
SeedOrganizations == {[id |-> o] : o \in Orgs}

\* The invitation an admin of orgA issued for contract c1 (not yet used).
SeedInvitations ==
  { [id |-> "i1", organizationId |-> "orgA", contractId |-> "c1", token |-> "tokA",
     email |-> "new@x", usedAt |-> NULL] }

\* No db.transaction call in flight.
NoTxn == [pc |-> "idle"]

UserIds == {u.id : u \in SeedUsers}
TenantIds == {u.id : u \in {x \in SeedUsers : x.role = "tenant"}}

\* Contracts present before the run (each with the building it was seeded with,
\* which is not a row of the bounded buildings table).
SeedContracts ==
  { [id |-> "c1", organizationId |-> "orgA", buildingId |-> "bA", isActive |-> TRUE],
    [id |-> "c2", organizationId |-> "orgA", buildingId |-> "bA", isActive |-> TRUE],
    [id |-> "c3", organizationId |-> "orgB", buildingId |-> "bB", isActive |-> TRUE] }
ContractIds == {"c1", "c2", "c3"}
\* The buildings the seeded contracts stand in; no call of the run names them.
SeedBuildingIds == {c.buildingId : c \in SeedContracts}

\* The authenticated sessions a request may carry (createRLSContext of a user).
createRLSContext(user) ==
  [organizationId |-> user.organizationId, userId |-> user.id, userRole |-> user.role]
Sessions == {createRLSContext(u) : u \in SeedUsers}

\* The settings of a connection on which no app.* setting is in force.
NoContext == [organizationId |-> NULL, userId |-> NULL, userRole |-> NULL]

VARIABLES
  rlsEnforced,      \* whether rls-setup.sql's policies bind the pool's role
  connCtx,          \* connection -> its session-level app.current_* settings
  users, buildings, contracts, tenantContracts, tickets, consumptionRecords, documents,
  clock,            \* "now", advanced by ticket updates
  pc, reqCtx, carrier, outcome,   \* withRLSContext calls in flight, per request
  organizations, invitationTokens,
  txn,              \* the db.transaction call in flight, if any
  cache,            \* the process-wide MemoryCache: its entries
  ret               \* the last service call: operation, arguments, result

tables == <<users, buildings, contracts, tenantContracts, tickets, consumptionRecords, documents>>
reqVars == <<pc, reqCtx, carrier, outcome>>
extVars == <<organizations, invitationTokens, txn, cache>>
vars == <<rlsEnforced, connCtx, tables, clock, reqVars, extVars, ret>>

NoRet == [op |-> "none"]

\* ------------------------------------------------- storage policies (RLS)
\* current_organization_id(): COALESCE(current_setting(..., true)::UUID, zero UUID).
current_organization_id(ctx) ==
  IF ctx.organizationId = NULL THEN ZeroUUID ELSE ctx.organizationId

\* current_user_id(): COALESCE(current_setting(..., true)::UUID, zero UUID).
current_user_id(ctx) ==
  IF ctx.userId = NULL THEN ZeroUUID ELSE ctx.userId

\* current_user_role(): current_setting('app.current_user_role', true), NULL when unset.
current_user_role(ctx) == ctx.userRole

buildings_isolation(row, ctx) ==
  row.organizationId = current_organization_id(ctx)

tenant_contracts_isolation(row, ctx) ==
  /\ row.organizationId = current_organization_id(ctx)
  /\ \/ current_user_role(ctx) = "landlord_admin"
     \/ row.tenantId = current_user_id(ctx)

\* SELECT contract_id FROM tenant_contracts WHERE tenant_id = current_user_id(),
\* itself read through tenant_contracts_isolation when the policies bind the role.
PolicyContractIds(ctx) ==
  { tc.contractId : tc \in { x \in tenantContracts :
        /\ x.tenantId = current_user_id(ctx)
        /\ tenant_contracts_isolation(x, ctx) } }

contracts_isolation(row, ctx) ==
  /\ row.organizationId = current_organization_id(ctx)
  /\ \/ current_user_role(ctx) = "landlord_admin"
     \/ row.id \in PolicyContractIds(ctx)

tickets_isolation(row, ctx) ==
  /\ row.organizationId = current_organization_id(ctx)
  /\ \/ current_user_role(ctx) = "landlord_admin"
     \/ row.createdById = current_user_id(ctx)
     \/ row.contractId \in PolicyContractIds(ctx)

consumption_isolation(row, ctx) ==
  /\ row.organizationId = current_organization_id(ctx)
  /\ \/ current_user_role(ctx) = "landlord_admin"
     \/ row.contractId \in PolicyContractIds(ctx)

\* SELECT id FROM tickets WHERE created_by_id = current_user_id(), read through
\* tickets_isolation.
PolicyTicketIds(ctx) ==
  { t.id : t \in { x \in tickets :
        /\ x.createdById = current_user_id(ctx)
        /\ tickets_isolation(x, ctx) } }

documents_isolation(row, ctx) ==
  /\ row.organizationId = current_organization_id(ctx)
  /\ \/ current_user_role(ctx) = "landlord_admin"
     \/ row.isPublic = TRUE
     \/ row.contractId \in PolicyContractIds(ctx)
     \/ row.ticketId \in PolicyTicketIds(ctx)

organization_isolation(row, ctx) == row.id = current_organization_id(ctx)

users_isolation(row, ctx) == row.organizationId = current_organization_id(ctx)

invitations_admin_only(row, ctx) ==
  /\ row.organizationId = current_organization_id(ctx)
  /\ current_user_role(ctx) = "landlord_admin"

\* ENABLE ROW LEVEL SECURITY (without FORCE): the policies filter what a
\* connection reads and check what it writes only when they bind the role the
\* pool connects as; the table owner is exempt.
Policy(table, row, ctx) ==
  CASE table = "buildings" -> buildings_isolation(row, ctx)
    [] table = "contracts" -> contracts_isolation(row, ctx)
    [] table = "tenant_contracts" -> tenant_contracts_isolation(row, ctx)
    [] table = "tickets" -> tickets_isolation(row, ctx)
    [] table = "consumption_records" -> consumption_isolation(row, ctx)
    [] table = "documents" -> documents_isolation(row, ctx)
    [] table = "organizations" -> organization_isolation(row, ctx)
    [] table = "users" -> users_isolation(row, ctx)
    [] table = "invitation_tokens" -> invitations_admin_only(row, ctx)

\* The rows of a table that a statement on a connection with settings ctx sees.
Visible(table, rows, ctx) ==
  IF rlsEnforced THEN {r \in rows : Policy(table, r, ctx)} ELSE rows

\* Whether an INSERT of row passes the policy (USING doubles as WITH CHECK).
MayWrite(table, row, ctx) ==
  ~rlsEnforced \/ Policy(table, row, ctx)

\* --------------------------------------------------------- connection pool
\* db.execute / db.select / db.insert outside db.transaction: the pool hands the
\* statement to any of its connections and the statement is its own transaction.

\* The settings a statement may find itself evaluated under: those of whichever
\* pooled connection it is handed to.
PoolContexts == {connCtx[c] : c \in Conns}

\* mutant: set_config(..., false), a session-level setting that outlives the statement
set_config_session(session, value) == value

\* SELECT set_config(name, value, true) run by db.execute: is_local = true makes the
\* value last until the end of the current transaction, which is the statement
\* itself, so the connection's settings afterwards are what they were before.
set_config_local(session, value) == session

\* ------------------------------------------- withRLSContext, per request r
withRLSContext_call(r, context) ==
  /\ pc[r] = "idle"
  /\ pc' = [pc EXCEPT ![r] = "set"]
  /\ reqCtx' = [reqCtx EXCEPT ![r] = context]
  /\ carrier' = [carrier EXCEPT ![r] = 0]
  /\ outcome' = [outcome EXCEPT ![r] = "none"]
  /\ UNCHANGED <<rlsEnforced, extVars, connCtx, tables, clock, ret>>

\* setRLSContext: the statement runs on a pooled connection, or db.execute rejects
\* and 'Database context setup failed' is thrown (before withRLSContext's try).
setRLSContext(r) ==
  /\ pc[r] = "set"
  /\ \/ \E c \in Conns :
          /\ connCtx' = [connCtx EXCEPT ![c] = set_config_local(@, reqCtx[r])]
          /\ carrier' = [carrier EXCEPT ![r] = c]
          /\ pc' = [pc EXCEPT ![r] = "operation"]
          /\ UNCHANGED outcome
     \/ /\ pc' = [pc EXCEPT ![r] = "returned"]
        /\ outcome' = [outcome EXCEPT ![r] = "error"]
        /\ UNCHANGED <<connCtx, carrier>>
  /\ UNCHANGED <<rlsEnforced, extVars, tables, clock, reqCtx, ret>>

\* db.select().from(buildings): no WHERE clause, on any pooled connection.
UnfilteredRead(c) == Visible("buildings", buildings, connCtx[c])

\* The operation run between set and clear: the unfiltered read of the buildings
\* table (as in IntegrityTest.testRowLevelSecurity); it returns or throws.
operation(r) ==
  /\ pc[r] = "operation"
  /\ \E c \in Conns, throws \in BOOLEAN :
       /\ ret' = [op |-> "db.select(buildings)", phase |-> "operation",
                  session |-> reqCtx[r], conn |-> c, evalCtx |-> connCtx[c],
                  kind |-> IF throws THEN "error" ELSE "rows",
                  rows |-> IF throws THEN {} ELSE UnfilteredRead(c)]
       /\ outcome' = [outcome EXCEPT ![r] = IF throws THEN "error" ELSE "ok"]
  /\ pc' = [pc EXCEPT ![r] = "finally"]
  /\ UNCHANGED <<rlsEnforced, extVars, connCtx, tables, clock, reqCtx, carrier>>

\* clearRLSContext in the finally block: set_config(name, NULL, true) on a pooled
\* connection; a failure is logged and swallowed.
clearRLSContext(r) ==
  /\ pc[r] = "finally"
  /\ \/ \E c \in Conns :
          connCtx' = [connCtx EXCEPT ![c] = set_config_local(@, NoContext)]
     \/ UNCHANGED connCtx
  /\ pc' = [pc EXCEPT ![r] = "returned"]
  /\ UNCHANGED <<rlsEnforced, extVars, tables, clock, reqCtx, carrier, outcome, ret>>

\* Control is back with the caller (value returned or exception propagated).
withRLSContext_return(r) ==
  /\ pc[r] = "returned"
  /\ pc' = [pc EXCEPT ![r] = "idle"]
  /\ UNCHANGED <<rlsEnforced, extVars, connCtx, tables, clock, reqCtx, carrier, outcome, ret>>

\* A query issued outside any withRLSContext call, on any pooled connection.
LaterQuery ==
  /\ \A r \in Reqs : pc[r] = "idle"
  /\ \E c \in Conns :
       ret' = [op |-> "db.select(buildings)", phase |-> "later",
               session |-> NoContext, conn |-> c, evalCtx |-> connCtx[c],
               kind |-> "rows", rows |-> UnfilteredRead(c)]
  /\ UNCHANGED <<rlsEnforced, extVars, connCtx, tables, clock, reqVars>>

\* ------------------------------------------------------- BuildingService
\* defaultRandom(): an id no row of the table carries yet.
FreshId(prefix, used, max) ==
  LET id(i) == prefix \o ToString(i)
  IN id(CHOOSE i \in 1..max : id(i) \notin used /\ \A j \in 1..(i-1) : id(j) \in used)

\* The ids a building_id foreign key accepts: the stored buildings and the
\* buildings of the seeded contracts.
BuildingIds == {b.id : b \in buildings} \cup SeedBuildingIds

\* The building_id column of a tickets or documents row (NULL where the call
\* that stored the row gave none).
building_id(row) == IF "buildingId" \in DOMAIN row THEN row.buildingId ELSE NULL

\* BuildingService.create(data): insert data as given.
BuildingService_create(session, data) ==
  /\ Cardinality(buildings) < MaxBuildings
  /\ \E ctx \in PoolContexts :
       LET row == [id |-> FreshId("b", {b.id : b \in buildings}, MaxBuildings),
                   organizationId |-> data.organizationId]
       IN IF MayWrite("buildings", row, ctx)
          THEN /\ buildings' = buildings \cup {row}
               /\ ret' = [op |-> "BuildingService.create", session |-> session,
                          kind |-> "row", rows |-> {row}]
          ELSE /\ UNCHANGED buildings
               /\ ret' = [op |-> "BuildingService.create", session |-> session,
                          kind |-> "error", rows |-> {}]
  /\ UNCHANGED <<rlsEnforced, extVars, connCtx, users, contracts, tenantContracts, tickets,
                 consumptionRecords, documents, clock, reqVars>>

\* BuildingService.getByOrganization(organizationId).
BuildingService_getByOrganization_rows(organizationId, ctx) ==
  {b \in Visible("buildings", buildings, ctx) : b.organizationId = organizationId}

BuildingService_getByOrganization(session, organizationId) ==
  /\ \E ctx \in PoolContexts :
       ret' = [op |-> "BuildingService.getByOrganization", session |-> session,
               organizationId |-> organizationId, kind |-> "rows",
               rows |-> BuildingService_getByOrganization_rows(organizationId, ctx)]
  /\ UNCHANGED <<rlsEnforced, extVars, connCtx, tables, clock, reqVars>>

\* An optional equality filter: applied only when the option is given (truthy).
OptEq(option, value) == option = NULL \/ value = option

\* ------------------------------------------------------- ContractService
\* ContractService.getById(id, organizationId): the row, or none (null).
ContractService_getById_rows(id, organizationId, ctx) ==
  {c \in Visible("contracts", contracts, ctx) :
     c.id = id /\ c.organizationId = organizationId}

\* ContractService.create(data): insert data as given; isActive defaults to true;
\* building_id is a foreign key.
ContractService_create(session, data) ==
  /\ Cardinality(contracts) < Cardinality(SeedContracts) + MaxContracts
  /\ \E ctx \in PoolContexts :
       LET cols == [id |-> FreshId("n", {x.id : x \in contracts}, MaxContracts),
                    organizationId |-> data.organizationId,
                    buildingId |-> data.buildingId,
                    isActive |-> IF "isActive" \in DOMAIN data THEN data.isActive
                                 ELSE TRUE]
           row == IF "unitNumber" \in DOMAIN data
                  THEN cols @@ [unitNumber |-> data.unitNumber] ELSE cols
       IN IF data.buildingId \in BuildingIds /\ MayWrite("contracts", row, ctx)
          THEN /\ contracts' = contracts \cup {row}
               /\ ret' = [op |-> "ContractService.create", session |-> session,
                          kind |-> "row", rows |-> {row}]
          ELSE /\ UNCHANGED contracts
               /\ ret' = [op |-> "ContractService.create", session |-> session,
                          kind |-> "error", rows |-> {}]
  /\ UNCHANGED <<rlsEnforced, extVars, connCtx, users, buildings, tenantContracts, tickets,
                 consumptionRecords, documents, clock, reqVars>>

ContractService_getById(session, id, organizationId) ==
  /\ \E ctx \in PoolContexts :
       LET rows == ContractService_getById_rows(id, organizationId, ctx)
       IN ret' = [op |-> "ContractService.getById", session |-> session, id |-> id,
                  organizationId |-> organizationId,
                  kind |-> IF rows = {} THEN "null" ELSE "row", rows |-> rows]
  /\ UNCHANGED <<rlsEnforced, extVars, connCtx, tables, clock, reqVars>>

\* ContractService.getWithDetails(id, organizationId): the contract found by id
\* and organization (null if none), then a second statement for its tenant links
\* (filtered by contract id alone).
ContractService_getWithDetails(session, id, organizationId) ==
  /\ \E ctx \in PoolContexts, ctx2 \in PoolContexts :
       LET rows == {c \in Visible("contracts", contracts, ctx) :
                      c.id = id /\ c.organizationId = organizationId}
           tenants == {tc \in Visible("tenant_contracts", tenantContracts, ctx2) :
                         tc.contractId = id}
       IN ret' = [op |-> "ContractService.getWithDetails", session |-> session,
                  id |-> id, organizationId |-> organizationId,
                  kind |-> IF rows = {} THEN "null" ELSE "object", rows |-> rows,
                  tenants |-> IF rows = {} THEN {} ELSE tenants]
  /\ UNCHANGED <<rlsEnforced, extVars, connCtx, tables, clock, reqVars>>

\* ContractService.getByOrganization(organizationId, options): the organization's
\* contracts, narrowed by buildingId when given and by isActive when present.
ContractService_getByOrganization_rows(organizationId, options, ctx) ==
  {c \in Visible("contracts", contracts, ctx) :
     /\ c.organizationId = organizationId
     /\ OptEq(options.buildingId, c.buildingId)
     /\ ("isActive" \in DOMAIN options => c.isActive = options.isActive)}

ContractService_getByOrganization(session, organizationId, options) ==
  /\ \E ctx \in PoolContexts :
       ret' = [op |-> "ContractService.getByOrganization", session |-> session,
               organizationId |-> organizationId, options |-> options, kind |-> "rows",
               rows |-> ContractService_getByOrganization_rows(organizationId, options,
                                                               ctx)]
  /\ UNCHANGED <<rlsEnforced, extVars, connCtx, tables, clock, reqVars>>

\* ContractService.addTenant(contractId, organizationId, tenantData): null unless
\* the contract is found in the organization; otherwise the link is inserted.
ContractService_addTenant(session, contractId, organizationId, tenantData) ==
  /\ Cardinality(tenantContracts) < MaxLinks
  /\ \E ctx \in PoolContexts :
       LET found == ContractService_getById_rows(contractId, organizationId, ctx)
           row == [id |-> FreshId("tc", {x.id : x \in tenantContracts}, MaxLinks),
                   organizationId |-> organizationId,
                   tenantId |-> tenantData.tenantId,
                   contractId |-> contractId,
                   percentage |-> tenantData.percentage]
       IN IF found = {}
          THEN /\ UNCHANGED tenantContracts
               /\ ret' = [op |-> "ContractService.addTenant", session |-> session,
                          kind |-> "null", rows |-> {}]
          ELSE IF MayWrite("tenant_contracts", row, ctx)
          THEN /\ tenantContracts' = tenantContracts \cup {row}
               /\ ret' = [op |-> "ContractService.addTenant", session |-> session,
                          kind |-> "row", rows |-> {row}]
          ELSE /\ UNCHANGED tenantContracts
               /\ ret' = [op |-> "ContractService.addTenant", session |-> session,
                          kind |-> "error", rows |-> {}]
  /\ UNCHANGED <<rlsEnforced, extVars, connCtx, users, buildings, contracts, tickets,
                 consumptionRecords, documents, clock, reqVars>>

\* --------------------------------------------------------- TicketService
\* new Date() / defaultNow(): the current time as a timestamp value.
Now == ToString(clock)

\* db.select({contractId}).from(tenantContracts).where(eq(tenantId, userId)),
\* mapped to its contract ids: the lookup every tenant branch starts with.
TenantContractIds(userId, ctx) ==
  {tc.contractId : tc \in {x \in Visible("tenant_contracts", tenantContracts, ctx) :
                              x.tenantId = userId}}

\* mutant: the tenant branch keeps only the contract clause when the tenant has
\* contracts and drops the condition otherwise
TicketTenantCondition_noFalse(t, userId, userRole, ctx) ==
  (userRole = "tenant" /\ userId # NULL /\ TenantContractIds(userId, ctx) # {})
    => \/ t.createdById = userId
       \/ t.contractId \in TenantContractIds(userId, ctx)

\* mutant: the tenant condition keeps only the contract clause
TicketTenantCondition_contractOnly(t, userId, userRole, ctx) ==
  (userRole = "tenant" /\ userId # NULL)
    => t.contractId \in TenantContractIds(userId, ctx)

\* if (userRole === 'tenant' && userId) { ... and(where, or(createdById = userId,
\* contractIds.length > 0 ? inArray(contractId, contractIds) : FALSE)) }: the
\* condition added to the WHERE clause; nothing is added in any other case.
TicketTenantCondition(t, userId, userRole, ctx) ==
  (userRole = "tenant" /\ userId # NULL)
    => \/ t.createdById = userId
       \/ /\ TenantContractIds(userId, ctx) # {}
          /\ t.contractId \in TenantContractIds(userId, ctx)

\* TicketService.create(data): insert data as given; the column defaults fill
\* what data leaves out; the foreign keys must resolve.
TicketService_create(session, data) ==
  /\ Cardinality(tickets) < MaxTickets
  /\ \E ctx \in PoolContexts :
       LET cols == [id |-> FreshId("k", {t.id : t \in tickets}, MaxTickets),
                    organizationId |-> data.organizationId,
                    contractId |-> data.contractId,
                    createdById |-> data.createdById,
                    assignedToId |-> NULL,
                    title |-> data.title,
                    description |-> data.description,
                    priority |-> IF data.priority = NULL THEN "medium" ELSE data.priority,
                    status |-> IF data.status = NULL THEN "open" ELSE data.status,
                    resolvedAt |-> NULL,
                    createdAt |-> Now,
                    updatedAt |-> Now]
           row == IF "buildingId" \in DOMAIN data
                  THEN cols @@ [buildingId |-> data.buildingId] ELSE cols
           fkOk == /\ data.contractId \in {NULL} \cup {x.id : x \in contracts}
                   /\ data.createdById \in {u.id : u \in users}
                   /\ building_id(data) \in {NULL} \cup BuildingIds
       IN IF fkOk /\ MayWrite("tickets", row, ctx)
          THEN /\ tickets' = tickets \cup {row}
               /\ ret' = [op |-> "TicketService.create", session |-> session,
                          data |-> data, kind |-> "row", rows |-> {row}]
          ELSE /\ UNCHANGED tickets
               /\ ret' = [op |-> "TicketService.create", session |-> session,
                          data |-> data, kind |-> "error", rows |-> {}]
  /\ UNCHANGED <<rlsEnforced, extVars, connCtx, users, buildings, contracts, tenantContracts,
                 consumptionRecords, documents, clock, reqVars>>

\* TicketService.getById: the rows its WHERE clause admits (limit 1 over a
\* primary-key match: at most one).
TicketService_getById_rows(id, organizationId, userId, userRole, ctx) ==
  {t \in Visible("tickets", tickets, ctx) :
     /\ t.id = id
     /\ t.organizationId = organizationId
     /\ TicketTenantCondition(t, userId, userRole, ctx)}

TicketService_getById(session, id, organizationId, userId, userRole) ==
  /\ \E ctx \in PoolContexts :
       LET rows == TicketService_getById_rows(id, organizationId, userId, userRole, ctx)
       IN ret' = [op |-> "TicketService.getById", session |-> session, id |-> id,
                  organizationId |-> organizationId, userId |-> userId,
                  userRole |-> userRole,
                  kind |-> IF rows = {} THEN "null" ELSE "row", rows |-> rows]
  /\ UNCHANGED <<rlsEnforced, extVars, connCtx, tables, clock, reqVars>>

\* TicketService.getByOrganization(organizationId, options): the explicit filters
\* that bear on modelled columns, AND the tenant condition.
TicketService_getByOrganization_rows(organizationId, options, ctx) ==
  {t \in Visible("tickets", tickets, ctx) :
     /\ t.organizationId = organizationId
     /\ OptEq(options.status, t.status)
     /\ OptEq(options.priority, t.priority)
     /\ OptEq(options.contractId, t.contractId)
     /\ OptEq(options.createdById, t.createdById)
     /\ OptEq(options.assignedToId, t.assignedToId)
     /\ TicketTenantCondition(t, options.userId, options.userRole, ctx)}

TicketService_getByOrganization(session, organizationId, options) ==
  /\ \E ctx \in PoolContexts :
       ret' = [op |-> "TicketService.getByOrganization", session |-> session,
               organizationId |-> organizationId, userId |-> options.userId,
               userRole |-> options.userRole, kind |-> "rows",
               rows |-> TicketService_getByOrganization_rows(organizationId, options, ctx)]
  /\ UNCHANGED <<rlsEnforced, extVars, connCtx, tables, clock, reqVars>>

\* TicketService.getStats(organizationId, {userId, userRole}): the rows counted.
TicketService_getStats_rows(organizationId, userId, userRole, ctx) ==
  {t \in Visible("tickets", tickets, ctx) :
     /\ t.organizationId = organizationId
     /\ TicketTenantCondition(t, userId, userRole, ctx)}

TicketService_getStats(session, organizationId, userId, userRole) ==
  /\ \E ctx \in PoolContexts :
       LET rows == TicketService_getStats_rows(organizationId, userId, userRole, ctx)
       IN ret' = [op |-> "TicketService.getStats", session |-> session,
                  organizationId |-> organizationId, userId |-> userId,
                  userRole |-> userRole, kind |-> "stats", rows |-> rows,
                  total |-> Cardinality(rows),
                  open |-> Cardinality({t \in rows : t.status = "open"})]
  /\ UNCHANGED <<rlsEnforced, extVars, connCtx, tables, clock, reqVars>>

\* like(column, `%${searchTerm}%`) over the atomic strings of the model: the
\* empty term matches everything, any other term matches the equal text.
Like(text, searchTerm) == searchTerm = "" \/ text = searchTerm

\* TicketService.search(organizationId, searchTerm, {userId, userRole}).
TicketService_search_rows(organizationId, searchTerm, userId, userRole, ctx) ==
  {t \in Visible("tickets", tickets, ctx) :
     /\ t.organizationId = organizationId
     /\ (Like(t.title, searchTerm) \/ Like(t.description, searchTerm))
     /\ TicketTenantCondition(t, userId, userRole, ctx)}

TicketService_search(session, organizationId, searchTerm, userId, userRole) ==
  /\ \E ctx \in PoolContexts :
       ret' = [op |-> "TicketService.search", session |-> session,
               organizationId |-> organizationId, userId |-> userId,
               userRole |-> userRole, kind |-> "rows",
               rows |-> TicketService_search_rows(organizationId, searchTerm, userId,
                                                  userRole, ctx)]
  /\ UNCHANGED <<rlsEnforced, extVars, connCtx, tables, clock, reqVars>>

\* mutant: the allow-list is not applied and the patch is written as submitted
TenantAllowedData_all(data) == data

\* allowedFields = ['description']; Object.fromEntries(Object.entries(data).filter(
\* ([key]) => allowedFields.includes(key))): the patch cut down to the allow-list.
TenantAllowedData(data) ==
  [f \in (DOMAIN data) \cap {"description"} |-> data[f]]

\* .set({ ...data, updatedAt: new Date() }) applied to one row.
TicketSet(t, data, now) ==
  [f \in DOMAIN t |->
     IF f = "updatedAt" THEN now
     ELSE IF f \in DOMAIN data THEN data[f] ELSE t[f]]

\* mutant: the access check before the write is skipped
TicketService_update_refused_never(found, userId, userRole) == FALSE

\* if (!ticket) return null; and, for a tenant, if (ticket.ticket.createdById !==
\* userId) return null: the cases in which update returns before writing.
TicketService_update_refused(found, userId, userRole) ==
  \/ found = {}
  \/ /\ userRole = "tenant"
     /\ userId # NULL
     /\ \E t \in found : t.createdById # userId

\* TicketService.update(id, organizationId, data, userId, userRole): getById under
\* the caller's arguments first (null when it finds nothing); a tenant who did not
\* create the ticket gets null; a tenant's patch is cut down to the allow-list;
\* then UPDATE ... WHERE id AND organizationId, RETURNING the row (or null).
TicketService_update(session, id, organizationId, data, userId, userRole) ==
  /\ clock < MaxClock
  /\ \E ctx \in PoolContexts :
       LET found == TicketService_getById_rows(id, organizationId, userId, userRole, ctx)
           asTenant == userRole = "tenant" /\ userId # NULL
           written == IF asTenant THEN TenantAllowedData(data) ELSE data
           target == {t \in Visible("tickets", tickets, ctx) :
                        t.id = id /\ t.organizationId = organizationId}
           updated == {TicketSet(t, written, ToString(clock + 1)) : t \in target}
           call == [op |-> "TicketService.update", session |-> session, id |-> id,
                    organizationId |-> organizationId, userId |-> userId,
                    userRole |-> userRole, patch |-> data]
       IN IF TicketService_update_refused(found, userId, userRole) \/ target = {}
          THEN /\ ret' = [f \in (DOMAIN call) \cup {"kind", "rows"} |->
                            IF f = "kind" THEN "null"
                            ELSE IF f = "rows" THEN {} ELSE call[f]]
               /\ UNCHANGED <<tickets, clock>>
          ELSE /\ tickets' = (tickets \ target) \cup updated
               /\ clock' = clock + 1
               /\ ret' = [f \in (DOMAIN call) \cup {"kind", "rows"} |->
                            IF f = "kind" THEN "row"
                            ELSE IF f = "rows" THEN updated ELSE call[f]]
  /\ UNCHANGED <<rlsEnforced, extVars, connCtx, users, buildings, contracts, tenantContracts,
                 consumptionRecords, documents, reqVars>>

\* TicketService.assign(id, organizationId, assignedToId): update with the
\* assignee and status 'in_progress' (or 'open' when the assignee is null).
TicketService_assign(session, id, organizationId, assignedToId) ==
  TicketService_update(session, id, organizationId,
                       [assignedToId |-> assignedToId,
                        status |-> IF assignedToId # NULL THEN "in_progress" ELSE "open"],
                       NULL, NULL)

\* updateData in updateStatus: the status, and for 'resolved' or 'closed' also
\* resolvedAt = the given time or new Date().
updateData(status, resolvedAt, now) ==
  IF status \in {"resolved", "closed"}
  THEN [status |-> status, resolvedAt |-> IF resolvedAt = NULL THEN now ELSE resolvedAt]
  ELSE [status |-> status]

\* TicketService.updateStatus(id, organizationId, status, resolvedAt?): update
\* with updateData.
TicketService_updateStatus(session, id, organizationId, status, resolvedAt) ==
  TicketService_update(session, id, organizationId,
                       updateData(status, resolvedAt, ToString(clock + 1)), NULL, NULL)

\* ---------------------------------------------------- ConsumptionService
\* Periods are 'YYYY-MM' text; gte/lte compare them as text, which orders them
\* chronologically. PeriodOrder lists the periods in use in that order.
PeriodOrder == <<"2024-01", "2024-02">>

PeriodIndex(p) == CHOOSE i \in DOMAIN PeriodOrder : PeriodOrder[i] = p

gte(a, b) == PeriodIndex(a) >= PeriodIndex(b)

lte(a, b) == PeriodIndex(a) <= PeriodIndex(b)

\* ConsumptionService.create(data): insert data as given; contractId must resolve.
ConsumptionService_create(session, data) ==
  /\ Cardinality(consumptionRecords) < MaxRecords
  /\ \E ctx \in PoolContexts :
       LET row == [id |-> FreshId("r", {x.id : x \in consumptionRecords}, MaxRecords),
                   organizationId |-> data.organizationId,
                   contractId |-> data.contractId,
                   consumptionType |-> data.consumptionType,
                   period |-> data.period]
           fkOk == data.contractId \in {x.id : x \in contracts}
       IN IF fkOk /\ MayWrite("consumption_records", row, ctx)
          THEN /\ consumptionRecords' = consumptionRecords \cup {row}
               /\ ret' = [op |-> "ConsumptionService.create", session |-> session,
                          kind |-> "row", rows |-> {row}]
          ELSE /\ UNCHANGED consumptionRecords
               /\ ret' = [op |-> "ConsumptionService.create", session |-> session,
                          kind |-> "error", rows |-> {}]
  /\ UNCHANGED <<rlsEnforced, extVars, connCtx, users, buildings, contracts, tenantContracts,
                 tickets, documents, clock, reqVars>>

\* mutant: the tenant branch adds no contract condition
ConsumptionTenantCondition_none(rec, userId, userRole, ctx) == TRUE

\* if (userRole === 'tenant' && userId) and(where, inArray(contractId, contractIds)):
\* the condition the tenant branch adds when the tenant has contracts.
ConsumptionTenantCondition(rec, userId, userRole, ctx) ==
  (userRole = "tenant" /\ userId # NULL)
    => rec.contractId \in TenantContractIds(userId, ctx)

\* The tenant branch's early exit: a tenant with no contract ("No access").
ConsumptionNoAccess(userId, userRole, ctx) ==
  userRole = "tenant" /\ userId # NULL /\ TenantContractIds(userId, ctx) = {}

\* ConsumptionService.getById(id, organizationId, userId, userRole).
ConsumptionService_getById_rows(id, organizationId, userId, userRole, ctx) ==
  IF ConsumptionNoAccess(userId, userRole, ctx) THEN {}
  ELSE {rec \in Visible("consumption_records", consumptionRecords, ctx) :
          /\ rec.id = id
          /\ rec.organizationId = organizationId
          /\ ConsumptionTenantCondition(rec, userId, userRole, ctx)}

ConsumptionService_getById(session, id, organizationId, userId, userRole) ==
  /\ \E ctx \in PoolContexts :
       LET rows == ConsumptionService_getById_rows(id, organizationId, userId, userRole, ctx)
       IN ret' = [op |-> "ConsumptionService.getById", session |-> session, id |-> id,
                  organizationId |-> organizationId, userId |-> userId,
                  userRole |-> userRole,
                  kind |-> IF rows = {} THEN "null" ELSE "row", rows |-> rows]
  /\ UNCHANGED <<rlsEnforced, extVars, connCtx, tables, clock, reqVars>>

\* ConsumptionService.getRecords(organizationId, options): explicit filters AND
\* the tenant condition; [] for a tenant with no contract.
ConsumptionService_getRecords_rows(organizationId, options, ctx) ==
  IF ConsumptionNoAccess(options.userId, options.userRole, ctx) THEN {}
  ELSE {rec \in Visible("consumption_records", consumptionRecords, ctx) :
          /\ rec.organizationId = organizationId
          /\ OptEq(options.contractId, rec.contractId)
          /\ OptEq(options.consumptionType, rec.consumptionType)
          /\ (options.period = NULL \/ rec.period = options.period)
          /\ (options.startPeriod = NULL \/ gte(rec.period, options.startPeriod))
          /\ (options.endPeriod = NULL \/ lte(rec.period, options.endPeriod))
          /\ ConsumptionTenantCondition(rec, options.userId, options.userRole, ctx)}

ConsumptionService_getRecords(session, organizationId, options) ==
  /\ \E ctx \in PoolContexts :
       ret' = [op |-> "ConsumptionService.getRecords", session |-> session,
               organizationId |-> organizationId, userId |-> options.userId,
               userRole |-> options.userRole, options |-> options, kind |-> "rows",
               rows |-> ConsumptionService_getRecords_rows(organizationId, options, ctx)]
  /\ UNCHANGED <<rlsEnforced, extVars, connCtx, tables, clock, reqVars>>

\* QueryBuilder.getTenantConsumptionSummary(tenantId, organizationId, options):
\* the tenant's contract ids within the organization; null when there are none;
\* otherwise the summary object over the records of those contracts.
SummaryContractIds(tenantId, organizationId, ctx) ==
  {tc.contractId : tc \in {x \in Visible("tenant_contracts", tenantContracts, ctx) :
                              x.tenantId = tenantId /\ x.organizationId = organizationId}}

QueryBuilder_getTenantConsumptionSummary_rows(tenantId, organizationId, options, ctx) ==
  {rec \in Visible("consumption_records", consumptionRecords, ctx) :
     /\ rec.contractId \in SummaryContractIds(tenantId, organizationId, ctx)
     /\ (options.startPeriod = NULL \/ gte(rec.period, options.startPeriod))
     /\ (options.endPeriod = NULL \/ lte(rec.period, options.endPeriod))}

QueryBuilder_getTenantConsumptionSummary(session, tenantId, organizationId, options) ==
  /\ \E ctx \in PoolContexts :
       LET rows == QueryBuilder_getTenantConsumptionSummary_rows(tenantId, organizationId,
                                                                 options, ctx)
       IN ret' = [op |-> "QueryBuilder.getTenantConsumptionSummary", session |-> session,
                  organizationId |-> organizationId, userId |-> tenantId,
                  userRole |-> "tenant",
                  kind |-> IF SummaryContractIds(tenantId, organizationId, ctx) = {}
                           THEN "null" ELSE "object",
                  rows |-> IF SummaryContractIds(tenantId, organizationId, ctx) = {}
                           THEN {} ELSE rows,
                  recordCount |-> IF SummaryContractIds(tenantId, organizationId, ctx) = {}
                                  THEN 0 ELSE Cardinality(rows)]
  /\ UNCHANGED <<rlsEnforced, extVars, connCtx, tables, clock, reqVars>>

\* ConsumptionService.getAnalytics(contractId, organizationId, options): null
\* for a tenant not linked to the contract; otherwise the aggregates over the
\* records of the contract in the organization that pass the explicit filters.
AnalyticsTenantAccess(contractId, userId, ctx) ==
  {tc \in Visible("tenant_contracts", tenantContracts, ctx) :
     tc.contractId = contractId /\ tc.tenantId = userId}

ConsumptionService_getAnalytics_rows(contractId, organizationId, options, ctx) ==
  {rec \in Visible("consumption_records", consumptionRecords, ctx) :
     /\ rec.contractId = contractId
     /\ rec.organizationId = organizationId
     /\ OptEq(options.consumptionType, rec.consumptionType)
     /\ (options.startPeriod = NULL \/ gte(rec.period, options.startPeriod))
     /\ (options.endPeriod = NULL \/ lte(rec.period, options.endPeriod))}

ConsumptionService_getAnalytics(session, contractId, organizationId, options) ==
  /\ \E ctx \in PoolContexts :
       LET denied == /\ options.userRole = "tenant" /\ options.userId # NULL
                     /\ AnalyticsTenantAccess(contractId, options.userId, ctx) = {}
           rows == IF denied THEN {}
                   ELSE ConsumptionService_getAnalytics_rows(contractId, organizationId,
                                                             options, ctx)
       IN ret' = [op |-> "ConsumptionService.getAnalytics", session |-> session,
                  contractId |-> contractId, organizationId |-> organizationId,
                  userId |-> options.userId, userRole |-> options.userRole,
                  kind |-> IF denied THEN "null" ELSE "analytics", rows |-> rows,
                  totalRecords |-> Cardinality(rows)]
  /\ UNCHANGED <<rlsEnforced, extVars, connCtx, tables, clock, reqVars>>

\* QueryBuilder.getTenantDashboard(tenantId, organizationId): the tenant's links
\* in the organization, the ticket counts and recent tickets over
\* WHERE created_by_id = tenantId, and the records of the linked contracts.
QueryBuilder_getTenantDashboard_tickets(tenantId, ctx) ==
  {t \in Visible("tickets", tickets, ctx) : t.createdById = tenantId}

QueryBuilder_getTenantDashboard_consumption(tenantId, organizationId, ctx) ==
  {rec \in Visible("consumption_records", consumptionRecords, ctx) :
     rec.contractId \in SummaryContractIds(tenantId, organizationId, ctx)}

QueryBuilder_getTenantDashboard(session, tenantId, organizationId) ==
  /\ \E ctx \in PoolContexts :
       LET ticketRows == QueryBuilder_getTenantDashboard_tickets(tenantId, ctx)
       IN ret' = [op |-> "QueryBuilder.getTenantDashboard", session |-> session,
                  organizationId |-> organizationId, userId |-> tenantId,
                  userRole |-> "tenant", kind |-> "dashboard",
                  rows |-> ticketRows,
                  ticketStats |-> [total |-> Cardinality(ticketRows),
                                   open |-> Cardinality({t \in ticketRows :
                                                           t.status = "open"})],
                  latestConsumption |->
                    QueryBuilder_getTenantDashboard_consumption(tenantId, organizationId,
                                                                ctx)]
  /\ UNCHANGED <<rlsEnforced, extVars, connCtx, tables, clock, reqVars>>

\* ------------------------------------------------------- DocumentService
\* DocumentService.create(data): insert data as given; isPublic defaults to false;
\* contract_id and ticket_id are foreign keys.
DocumentService_create(session, data) ==
  /\ Cardinality(documents) < MaxDocuments
  /\ \E ctx \in PoolContexts :
       LET cols == [id |-> FreshId("d", {x.id : x \in documents}, MaxDocuments),
                    organizationId |-> data.organizationId,
                    contractId |-> data.contractId,
                    ticketId |-> data.ticketId,
                    uploadedById |-> data.uploadedById,
                    category |-> data.category,
                    isPublic |-> IF "isPublic" \in DOMAIN data THEN data.isPublic
                                 ELSE FALSE]
           row == IF "buildingId" \in DOMAIN data
                  THEN cols @@ [buildingId |-> data.buildingId] ELSE cols
           fkOk == /\ data.contractId \in {x.id : x \in contracts} \cup {NULL}
                   /\ data.ticketId \in {x.id : x \in tickets} \cup {NULL}
                   /\ data.uploadedById \in {x.id : x \in users}
                   /\ building_id(data) \in {NULL} \cup BuildingIds
       IN IF fkOk /\ MayWrite("documents", row, ctx)
          THEN /\ documents' = documents \cup {row}
               /\ ret' = [op |-> "DocumentService.create", session |-> session,
                          kind |-> "row", rows |-> {row}]
          ELSE /\ UNCHANGED documents
               /\ ret' = [op |-> "DocumentService.create", session |-> session,
                          kind |-> "error", rows |-> {}]
  /\ UNCHANGED <<rlsEnforced, extVars, connCtx, users, buildings, contracts, tenantContracts,
                 tickets, consumptionRecords, clock, reqVars>>

\* ticketId IN (SELECT id FROM tickets WHERE created_by_id = userId)
TicketsCreatedBy(userId, ctx) ==
  {t.id : t \in {x \in Visible("tickets", tickets, ctx) : x.createdById = userId}}

\* mutant: the tenant condition without the isPublic clause
DocumentTenantCondition_noPublic(d, userId, userRole, ctx) ==
  (userRole = "tenant" /\ userId # NULL)
    => \/ d.uploadedById = userId
       \/ d.contractId \in TenantContractIds(userId, ctx)
       \/ d.ticketId \in TicketsCreatedBy(userId, ctx)

\* if (userRole === 'tenant' && userId) and(where, or(isPublic = true,
\* uploadedById = userId, contractIds.length > 0 ? inArray(contractId, contractIds)
\* : FALSE, ticketId IN (the user's tickets))).
DocumentTenantCondition(d, userId, userRole, ctx) ==
  (userRole = "tenant" /\ userId # NULL)
    => \/ d.isPublic = TRUE
       \/ d.uploadedById = userId
       \/ d.contractId \in TenantContractIds(userId, ctx)
       \/ d.ticketId \in TicketsCreatedBy(userId, ctx)

\* DocumentService.getById(id, organizationId, userId, userRole).
DocumentService_getById_rows(id, organizationId, userId, userRole, ctx) ==
  {d \in Visible("documents", documents, ctx) :
     /\ d.id = id
     /\ d.organizationId = organizationId
     /\ DocumentTenantCondition(d, userId, userRole, ctx)}

DocumentService_getById(session, id, organizationId, userId, userRole) ==
  /\ \E ctx \in PoolContexts :
       LET rows == DocumentService_getById_rows(id, organizationId, userId, userRole, ctx)
       IN ret' = [op |-> "DocumentService.getById", session |-> session, id |-> id,
                  organizationId |-> organizationId, userId |-> userId,
                  userRole |-> userRole,
                  kind |-> IF rows = {} THEN "null" ELSE "row", rows |-> rows]
  /\ UNCHANGED <<rlsEnforced, extVars, connCtx, tables, clock, reqVars>>

\* DocumentService.getDocuments(organizationId, options): explicit filters (the
\* isPublic filter applies whenever the option is present) AND the tenant
\* condition.
DocumentService_getDocuments_rows(organizationId, options, ctx) ==
  {d \in Visible("documents", documents, ctx) :
     /\ d.organizationId = organizationId
     /\ OptEq(options.category, d.category)
     /\ OptEq(options.contractId, d.contractId)
     /\ OptEq(options.ticketId, d.ticketId)
     /\ ("isPublic" \in DOMAIN options => d.isPublic = options.isPublic)
     /\ DocumentTenantCondition(d, options.userId, options.userRole, ctx)}

DocumentService_getDocuments(session, organizationId, options) ==
  /\ \E ctx \in PoolContexts :
       ret' = [op |-> "DocumentService.getDocuments", session |-> session,
               organizationId |-> organizationId, userId |-> options.userId,
               userRole |-> options.userRole, options |-> options, kind |-> "rows",
               rows |-> DocumentService_getDocuments_rows(organizationId, options, ctx)]
  /\ UNCHANGED <<rlsEnforced, extVars, connCtx, tables, clock, reqVars>>

\* ------------------------------------------------------- db.transaction
\* db.transaction(callback): BEGIN on a connection checked out of the pool, the
\* callback's statements on that connection through tx, COMMIT when the callback
\* returns and ROLLBACK when it throws. Writes made through tx are held in txn
\* until COMMIT; nobody else sees them before.

\* The settings the statements issued through tx are evaluated under: those of
\* the transaction's own connection.
TxContext == connCtx[txn.conn]

\* ROLLBACK: nothing the callback wrote is kept; the error goes to the caller.
tx_rollback ==
  /\ txn.pc = "rollback"
  /\ txn' = NoTxn
  /\ ret' = [op |-> txn.op, kind |-> "error", rows |-> {}, data |-> txn.data]
  /\ UNCHANGED <<rlsEnforced, connCtx, tables, organizations, invitationTokens, cache, clock,
                 reqVars>>

\* withTransactionAndRLS(context, callback): db.transaction takes a connection
\* for tx; setRLSContext(context) is then awaited, and it issues its statement
\* through db, that is on a pooled connection other than the one tx holds.
withTransactionAndRLS_call(context) ==
  /\ txn.pc = "idle"
  /\ \E c \in Conns :
       txn' = [pc |-> "setRLSContext", op |-> "withTransactionAndRLS", conn |-> c,
               data |-> [context |-> context]]
  /\ UNCHANGED <<rlsEnforced, connCtx, tables, organizations, invitationTokens, cache, clock,
                 reqVars, ret>>

\* await setRLSContext(context): set_config(name, value, true) through db; a
\* failure throws 'Database context setup failed' inside the transaction.
withTransactionAndRLS_setRLSContext ==
  /\ txn.pc = "setRLSContext"
  /\ \/ \E c \in Conns \ {txn.conn} :
          /\ connCtx' = [connCtx EXCEPT ![c] = set_config_local(@, txn.data.context)]
          /\ txn' = [txn EXCEPT !.pc = "callback"]
     \/ /\ txn' = [txn EXCEPT !.pc = "rollback"]
        /\ UNCHANGED connCtx
  /\ UNCHANGED <<rlsEnforced, tables, organizations, invitationTokens, cache, clock, reqVars, ret>>

\* callback(tx): a statement issued through tx (the unfiltered read of the
\* buildings table) runs on the transaction's connection; it returns or throws.
withTransactionAndRLS_callback ==
  /\ txn.pc = "callback"
  /\ \E throws \in BOOLEAN :
       /\ ret' = [op |-> "tx.select(buildings)", session |-> txn.data.context,
                  conn |-> txn.conn, evalCtx |-> TxContext,
                  kind |-> IF throws THEN "error" ELSE "rows",
                  rows |-> IF throws THEN {} ELSE UnfilteredRead(txn.conn)]
       /\ txn' = [txn EXCEPT !.pc = IF throws THEN "rollback" ELSE "commit"]
  /\ UNCHANGED <<rlsEnforced, connCtx, tables, organizations, invitationTokens, cache, clock,
                 reqVars>>

\* COMMIT: the connection goes back to the pool.
withTransactionAndRLS_commit ==
  /\ txn.pc = "commit"
  /\ txn.op = "withTransactionAndRLS"
  /\ txn' = NoTxn
  /\ UNCHANGED <<rlsEnforced, connCtx, tables, organizations, invitationTokens, cache, clock,
                 reqVars, ret>>

\* createTenantWithContract(data): withTransaction around three statements.
createTenantWithContract_call(data) ==
  /\ txn.pc = "idle"
  /\ Cardinality(users) < Cardinality(SeedUsers) + MaxNewUsers
  /\ Cardinality(tenantContracts) < MaxLinks
  /\ \E c \in Conns :
       txn' = [pc |-> "insertUser", op |-> "createTenantWithContract", conn |-> c,
               data |-> data, users |-> {}, tenantContracts |-> {},
               usedTokens |-> {}]
  /\ UNCHANGED <<rlsEnforced, connCtx, tables, organizations, invitationTokens, cache, clock,
                 reqVars, ret>>

\* 1. tx.insert(users): role 'tenant', the given organization; the email is unique.
createTenantWithContract_insertUser ==
  /\ txn.pc = "insertUser"
  /\ LET row == [id |-> FreshId("u", {x.id : x \in users} \ UserIds, MaxNewUsers),
                 organizationId |-> txn.data.organizationId, role |-> "tenant",
                 email |-> txn.data.tenantData.email, isActive |-> TRUE]
         ok == /\ row.email \notin {x.email : x \in users}
               /\ row.organizationId \in {o.id : o \in organizations}
               /\ MayWrite("users", row, TxContext)
     IN \/ /\ ok
           /\ txn' = [txn EXCEPT !.pc = "insertLink", !.users = {row}]
        \/ txn' = [txn EXCEPT !.pc = "rollback"]
  /\ UNCHANGED <<rlsEnforced, connCtx, tables, organizations, invitationTokens, cache, clock,
                 reqVars, ret>>

\* 2. tx.insert(tenantContracts): the new tenant, the given contract and
\* organization; percentage defaults to 100.
createTenantWithContract_insertLink ==
  /\ txn.pc = "insertLink"
  /\ Cardinality(tenantContracts) < MaxLinks
  /\ LET tenant == CHOOSE u \in txn.users : TRUE
         row == [id |-> FreshId("tc", {x.id : x \in tenantContracts}, MaxLinks),
                 organizationId |-> txn.data.organizationId,
                 tenantId |-> tenant.id,
                 contractId |-> txn.data.contractId,
                 percentage |-> IF "percentage" \in DOMAIN txn.data.tenantData
                                THEN txn.data.tenantData.percentage ELSE 100]
         ok == /\ row.contractId \in {x.id : x \in contracts}
               /\ MayWrite("tenant_contracts", row, TxContext)
     IN \/ /\ ok
           /\ txn' = [txn EXCEPT !.pc = "markInvitation", !.tenantContracts = {row}]
        \/ txn' = [txn EXCEPT !.pc = "rollback"]
  /\ UNCHANGED <<rlsEnforced, connCtx, tables, organizations, invitationTokens, cache, clock,
                 reqVars, ret>>

\* 3. tx.update(invitationTokens).set({usedAt: new Date()}).where(token = given):
\* every row carrying the token (none, if the token is unknown).
createTenantWithContract_markInvitation ==
  /\ txn.pc = "markInvitation"
  /\ \/ txn' = [txn EXCEPT !.pc = "commit",
                           !.usedTokens =
                             {t.id : t \in {x \in Visible("invitation_tokens",
                                                          invitationTokens, TxContext) :
                                              x.token = txn.data.invitationToken}}]
     \/ txn' = [txn EXCEPT !.pc = "rollback"]
  /\ UNCHANGED <<rlsEnforced, connCtx, tables, organizations, invitationTokens, cache, clock,
                 reqVars, ret>>

\* COMMIT: the three statements' writes become visible together.
createTenantWithContract_commit ==
  /\ txn.pc = "commit"
  /\ txn.op = "createTenantWithContract"
  /\ users' = users \cup txn.users
  /\ tenantContracts' = tenantContracts \cup txn.tenantContracts
  /\ invitationTokens' = {IF t.id \in txn.usedTokens THEN [t EXCEPT !.usedAt = Now]
                          ELSE t : t \in invitationTokens}
  /\ ret' = [op |-> txn.op, kind |-> "ok", data |-> txn.data,
             rows |-> txn.users, tenantContract |-> txn.tenantContracts]
  /\ txn' = NoTxn
  /\ UNCHANGED <<rlsEnforced, connCtx, buildings, contracts, tickets,
                 consumptionRecords, documents, organizations, cache, clock, reqVars>>

\* if (value): undefined and the empty string are falsy.
Truthy(text) == text \notin {NULL, ""}

\* The unit_number column of a contracts row (NULL where the call that stored
\* the row gave none).
unit_number(row) == IF "unitNumber" \in DOMAIN row THEN row.unitNumber ELSE NULL

\* ContractService.isUnitAvailable(buildingId, unitNumber, organizationId,
\* excludeContractId): no active contract of the organization (other than the
\* excluded one) has the unit.
ContractService_isUnitAvailable_rows(buildingId, unitNumber, organizationId, excludeContractId, ctx) ==
  {c \in Visible("contracts", contracts, ctx) :
     /\ c.buildingId = buildingId
     /\ unit_number(c) = unitNumber
     /\ c.organizationId = organizationId
     /\ c.isActive
     /\ (Truthy(excludeContractId) => c.id # excludeContractId)}

ContractService_isUnitAvailable(session, buildingId, unitNumber, organizationId, excludeContractId) ==
  /\ \E ctx \in PoolContexts :
       LET existing == ContractService_isUnitAvailable_rows(
                         buildingId, unitNumber, organizationId, excludeContractId, ctx)
       IN ret' = [op |-> "ContractService.isUnitAvailable", session |-> session,
                  unitNumber |-> unitNumber, excludeContractId |-> excludeContractId,
                  kind |-> IF existing = {} THEN "true" ELSE "false", rows |-> {}]
  /\ UNCHANGED <<rlsEnforced, extVars, connCtx, tables, clock, reqVars>>

\* ------------------------------------------------- contract termination
OpenStatuses_onlyOpen == {"open"}

\* inArray(tickets.status, ['open', 'in_progress', 'waiting_for_tenant'])
OpenStatuses == {"open", "in_progress", "waiting_for_tenant"}

\* terminateContract(contractId, organizationId, terminationData):
\* withTransaction around up to three statements.
terminateContract_call(contractId, organizationId, terminationData) ==
  /\ txn.pc = "idle"
  /\ Cardinality(documents) < MaxDocuments
  /\ \E c \in Conns :
       txn' = [pc |-> "updateContract", op |-> "terminateContract", conn |-> c,
               data |-> [contractId |-> contractId, organizationId |-> organizationId,
                         terminationData |-> terminationData],
               contracts |-> {}, tickets |-> {}, documents |-> {}]
  /\ UNCHANGED <<rlsEnforced, connCtx, tables, organizations, invitationTokens, cache, clock,
                 reqVars, ret>>

\* 1. tx.update(contracts) SET end_date, is_active = false WHERE id AND
\* organization_id, RETURNING; no row: 'Contract not found or already terminated'.
terminateContract_updateContract ==
  /\ txn.pc = "updateContract"
  /\ LET updatedContract == {c.id : c \in {x \in Visible("contracts", contracts, TxContext) :
                                             /\ x.id = txn.data.contractId
                                             /\ x.organizationId = txn.data.organizationId}}
     IN txn' = IF updatedContract = {}
               THEN [txn EXCEPT !.pc = "rollback"]
               ELSE [txn EXCEPT !.pc = "closeTickets", !.contracts = updatedContract]
  /\ UNCHANGED <<rlsEnforced, connCtx, tables, organizations, invitationTokens, cache, clock,
                 reqVars, ret>>

\* 2. tx.update(tickets) SET status = 'closed', resolved_at, updated_at WHERE
\* contract_id = contractId AND status IN (open, in_progress, waiting_for_tenant).
terminateContract_closeTickets ==
  /\ txn.pc = "closeTickets"
  /\ txn.op = "terminateContract"
  /\ txn' = [txn EXCEPT !.pc = "insertDocument",
                        !.tickets =
                          {t.id : t \in {x \in Visible("tickets", tickets, TxContext) :
                                           /\ x.contractId = txn.data.contractId
                                           /\ x.status \in OpenStatuses}}]
  /\ UNCHANGED <<rlsEnforced, connCtx, tables, organizations, invitationTokens, cache, clock,
                 reqVars, ret>>

\* 3. if (reason) tx.insert(documents): a private note on the contract, uploaded
\* by terminatedById (a foreign key).
terminateContract_insertDocument ==
  /\ txn.pc = "insertDocument"
  /\ LET row == [id |-> FreshId("d", {x.id : x \in documents}, MaxDocuments),
                 organizationId |-> txn.data.organizationId,
                 contractId |-> txn.data.contractId,
                 ticketId |-> NULL,
                 uploadedById |-> txn.data.terminationData.terminatedById,
                 category |-> "document",
                 isPublic |-> FALSE]
         ok == /\ row.uploadedById \in {u.id : u \in users}
               /\ MayWrite("documents", row, TxContext)
     IN txn' = IF ~Truthy(txn.data.terminationData.reason)
               THEN [txn EXCEPT !.pc = "commit"]
               ELSE IF ok THEN [txn EXCEPT !.pc = "commit", !.documents = {row}]
               ELSE [txn EXCEPT !.pc = "rollback"]
  /\ UNCHANGED <<rlsEnforced, connCtx, tables, organizations, invitationTokens, cache, clock,
                 reqVars, ret>>

\* COMMIT: the statements' writes become visible together; the updated
\* contract is returned.
terminateContract_commit ==
  /\ txn.pc = "commit"
  /\ txn.op = "terminateContract"
  /\ LET terminated(c) == [endDate |-> txn.data.terminationData.endDate,
                           isActive |-> FALSE] @@ c
     IN /\ contracts' = {IF c.id \in txn.contracts THEN terminated(c) ELSE c :
                           c \in contracts}
        /\ ret' = [op |-> txn.op, kind |-> "ok", data |-> txn.data,
                   rows |-> {terminated(c) : c \in {x \in contracts : x.id \in txn.contracts}}]
  /\ tickets' = {IF t.id \in txn.tickets
                 THEN [t EXCEPT !.status = "closed", !.resolvedAt = Now, !.updatedAt = Now]
                 ELSE t : t \in tickets}
  /\ documents' = documents \cup txn.documents
  /\ txn' = NoTxn
  /\ UNCHANGED <<rlsEnforced, connCtx, users, buildings, tenantContracts,
                 consumptionRecords, organizations, invitationTokens, cache, clock, reqVars>>

\* ------------------------------------------- bulk consumption records
\* The consumption_records table as the transaction sees it: the committed
\* rows with the transaction's own inserts and updates applied.
BulkView ==
  {IF rec.id \in DOMAIN txn.updated THEN [reading |-> txn.updated[rec.id]] @@ rec
   ELSE rec : rec \in consumptionRecords} \cup txn.created

BulkExisting_none(record) == {}

\* tx.select({id}).from(consumptionRecords) WHERE contract_id, consumption_type
\* and period equal the record's (limit 1 takes any one of these).
BulkExisting(record) ==
  {rec \in Visible("consumption_records", BulkView, TxContext) :
     /\ rec.contractId = record.contractId
     /\ rec.consumptionType = record.consumptionType
     /\ rec.period = record.period}

\* createBulkConsumptionRecords(organizationId, records): withTransaction
\* around a loop over the records.
createBulkConsumptionRecords_call(organizationId, records) ==
  /\ txn.pc = "idle"
  /\ \E c \in Conns :
       txn' = [pc |-> "record", op |-> "createBulkConsumptionRecords", conn |-> c,
               data |-> [organizationId |-> organizationId, records |-> records],
               i |-> 1, created |-> {}, updated |-> <<>>, createdRecords |-> <<>>]
  /\ UNCHANGED <<rlsEnforced, connCtx, tables, organizations, invitationTokens, cache, clock,
                 reqVars, ret>>

\* One turn of the loop: the existing row is updated by id, or the record is
\* inserted with the organizationId argument (contract_id is a foreign key).
createBulkConsumptionRecords_record ==
  /\ txn.pc = "record"
  /\ txn.i <= Len(txn.data.records)
  /\ LET record == txn.data.records[txn.i]
         existing == BulkExisting(record)
         row == [id |-> FreshId("r", {x.id : x \in BulkView}, MaxRecords),
                 organizationId |-> txn.data.organizationId,
                 contractId |-> record.contractId,
                 consumptionType |-> record.consumptionType,
                 period |-> record.period,
                 reading |-> record.reading]
     IN IF existing # {}
        THEN \E e \in existing :
               txn' = [txn EXCEPT !.i = @ + 1,
                                  !.updated = (e.id :> record.reading) @@ @,
                                  !.created = {IF x.id = e.id
                                               THEN [x EXCEPT !.reading = record.reading]
                                               ELSE x : x \in @},
                                  !.createdRecords = Append(@, "updated")]
        ELSE /\ Cardinality(BulkView) < MaxRecords
             /\ IF /\ record.contractId \in {x.id : x \in contracts}
                   /\ MayWrite("consumption_records", row, TxContext)
                THEN txn' = [txn EXCEPT !.i = @ + 1, !.created = @ \cup {row},
                                        !.createdRecords = Append(@, "created")]
                ELSE txn' = [txn EXCEPT !.pc = "rollback"]
  /\ UNCHANGED <<rlsEnforced, connCtx, tables, organizations, invitationTokens, cache, clock,
                 reqVars, ret>>

\* The loop is over: COMMIT, and createdRecords is returned.
createBulkConsumptionRecords_commit ==
  /\ txn.pc = "record"
  /\ txn.i > Len(txn.data.records)
  /\ consumptionRecords' = BulkView
  /\ ret' = [op |-> txn.op, kind |-> "ok", data |-> txn.data,
             rows |-> txn.created, createdRecords |-> txn.createdRecords]
  /\ txn' = NoTxn
  /\ UNCHANGED <<rlsEnforced, connCtx, users, buildings, contracts, tenantContracts,
                 tickets, documents, organizations, invitationTokens, cache, clock, reqVars>>

\* ------------------------------------------------------ building removal
\* ContractService.update(id, organizationId, data) with data = {isActive}
\* (toggleActive): the row matched by id and organization is rewritten.
ContractService_update(session, id, organizationId, data) ==
  /\ \E ctx \in PoolContexts :
       LET target == {c \in Visible("contracts", contracts, ctx) :
                        c.id = id /\ c.organizationId = organizationId}
           updated == {[c EXCEPT !.isActive = data.isActive] : c \in target}
       IN /\ contracts' = (contracts \ target) \cup updated
          /\ ret' = [op |-> "ContractService.update", session |-> session, id |-> id,
                     kind |-> IF target = {} THEN "null" ELSE "row", rows |-> updated]
  /\ UNCHANGED <<rlsEnforced, extVars, connCtx, users, buildings, tenantContracts, tickets,
                 consumptionRecords, documents, clock, reqVars>>

ContractService_toggleActive(session, id, organizationId, isActive) ==
  ContractService_update(session, id, organizationId, [isActive |-> isActive])

\* count(contracts.id) WHERE building_id = id AND is_active = true, as the
\* connection with settings ctx sees it.
activeContracts(id, ctx) ==
  Cardinality({c \in Visible("contracts", contracts, ctx) :
                 c.buildingId = id /\ c.isActive})

buildings_referenced_never(id, removedDocuments) == FALSE

\* The building_id foreign keys of contracts, tickets and documents: a building
\* row that any stored row still names cannot be deleted (the statement fails).
buildings_referenced(id, removedDocuments) ==
  \/ \E c \in contracts : c.buildingId = id
  \/ \E t \in tickets : building_id(t) = id
  \/ \E d \in documents : d.id \notin removedDocuments /\ building_id(d) = id

\* BuildingService.delete(id, organizationId): two statements outside any
\* transaction, each on whichever pooled connection it gets; every error is
\* caught and false is returned. txn holds the call's position between the two.
BuildingService_delete_call(session, id, organizationId) ==
  /\ txn.pc = "idle"
  /\ txn' = [pc |-> "countActive", op |-> "BuildingService.delete", session |-> session,
             data |-> [buildingId |-> id, organizationId |-> organizationId]]
  /\ UNCHANGED <<rlsEnforced, connCtx, tables, organizations, invitationTokens, cache, clock,
                 reqVars, ret>>

\* The count of active contracts; a positive count throws, and the catch
\* returns false.
BuildingService_delete_countActive ==
  /\ txn.pc = "countActive"
  /\ \E ctx \in PoolContexts :
       IF activeContracts(txn.data.buildingId, ctx) > 0
       THEN /\ txn' = NoTxn
            /\ ret' = [op |-> txn.op, session |-> txn.session, data |-> txn.data,
                       kind |-> "false", rows |-> {}]
       ELSE /\ txn' = [txn EXCEPT !.pc = "deleteBuilding"]
            /\ UNCHANGED ret
  /\ UNCHANGED <<rlsEnforced, connCtx, tables, organizations, invitationTokens, cache, clock,
                 reqVars>>

\* db.delete(buildings) WHERE id AND organization_id, RETURNING: true when a
\* row went, false when none matched or the statement failed.
BuildingService_delete_deleteBuilding ==
  /\ txn.pc = "deleteBuilding"
  /\ txn.op = "BuildingService.delete"
  /\ \E ctx \in PoolContexts :
       LET deleted == {b \in Visible("buildings", buildings, ctx) :
                         /\ b.id = txn.data.buildingId
                         /\ b.organizationId = txn.data.organizationId}
           failed == deleted # {} /\ buildings_referenced(txn.data.buildingId, {})
       IN /\ buildings' = IF failed THEN buildings ELSE buildings \ deleted
          /\ ret' = [op |-> txn.op, session |-> txn.session, data |-> txn.data,
                     kind |-> IF failed \/ deleted = {} THEN "false" ELSE "true",
                     rows |-> {}]
  /\ txn' = NoTxn
  /\ UNCHANGED <<rlsEnforced, connCtx, users, contracts, tenantContracts, tickets,
                 consumptionRecords, documents, organizations, invitationTokens, cache, clock,
                 reqVars>>

\* deleteBuildingWithCleanup(buildingId, organizationId): withTransaction around
\* four statements.
deleteBuildingWithCleanup_call(id, organizationId) ==
  /\ txn.pc = "idle"
  /\ \E c \in Conns :
       txn' = [pc |-> "checkContracts", op |-> "deleteBuildingWithCleanup", conn |-> c,
               data |-> [buildingId |-> id, organizationId |-> organizationId],
               documents |-> {}, tickets |-> {}]
  /\ UNCHANGED <<rlsEnforced, connCtx, tables, organizations, invitationTokens, cache, clock,
                 reqVars, ret>>

\* 1. the count of active contracts through tx; a positive count throws.
deleteBuildingWithCleanup_checkContracts ==
  /\ txn.pc = "checkContracts"
  /\ txn' = [txn EXCEPT !.pc = IF activeContracts(txn.data.buildingId, TxContext) > 0
                                THEN "rollback" ELSE "deleteDocuments"]
  /\ UNCHANGED <<rlsEnforced, connCtx, tables, organizations, invitationTokens, cache, clock,
                 reqVars, ret>>

\* 2. tx.delete(documents) WHERE building_id = buildingId.
deleteBuildingWithCleanup_deleteDocuments ==
  /\ txn.pc = "deleteDocuments"
  /\ txn' = [txn EXCEPT !.pc = "closeTickets",
                        !.documents =
                          {d.id : d \in {x \in Visible("documents", documents, TxContext) :
                                           building_id(x) = txn.data.buildingId}}]
  /\ UNCHANGED <<rlsEnforced, connCtx, tables, organizations, invitationTokens, cache, clock,
                 reqVars, ret>>

\* 3. tx.update(tickets) SET status = 'closed', resolved_at, updated_at WHERE
\* building_id = buildingId AND status IN (open, in_progress, waiting_for_tenant).
deleteBuildingWithCleanup_closeTickets ==
  /\ txn.pc = "closeTickets"
  /\ txn' = [txn EXCEPT !.pc = "deleteBuilding",
                        !.tickets =
                          {t.id : t \in {x \in Visible("tickets", tickets, TxContext) :
                                           /\ building_id(x) = txn.data.buildingId
                                           /\ x.status \in {"open", "in_progress",
                                                            "waiting_for_tenant"}}}]
  /\ UNCHANGED <<rlsEnforced, connCtx, tables, organizations, invitationTokens, cache, clock,
                 reqVars, ret>>

\* 4. tx.delete(buildings) WHERE id AND organization_id, RETURNING, and the
\* COMMIT that follows it (the deleted row stays locked in between, so no
\* reference to it can be stored there). A failing delete throws: ROLLBACK.
deleteBuildingWithCleanup_deleteBuilding ==
  /\ txn.pc = "deleteBuilding"
  /\ txn.op = "deleteBuildingWithCleanup"
  /\ LET deleted == {b \in Visible("buildings", buildings, TxContext) :
                       /\ b.id = txn.data.buildingId
                       /\ b.organizationId = txn.data.organizationId}
     IN IF deleted # {} /\ buildings_referenced(txn.data.buildingId, txn.documents)
        THEN /\ txn' = [txn EXCEPT !.pc = "rollback"]
             /\ UNCHANGED <<buildings, documents, tickets, ret>>
        ELSE /\ buildings' = buildings \ deleted
             /\ documents' = {d \in documents : d.id \notin txn.documents}
             /\ tickets' = {IF t.id \in txn.tickets
                            THEN [t EXCEPT !.status = "closed", !.resolvedAt = Now,
                                           !.updatedAt = Now]
                            ELSE t : t \in tickets}
             /\ ret' = [op |-> txn.op, kind |-> IF deleted = {} THEN "undefined" ELSE "row",
                        data |-> txn.data, rows |-> deleted]
             /\ txn' = NoTxn
  /\ UNCHANGED <<rlsEnforced, connCtx, users, contracts, tenantContracts,
                 consumptionRecords, organizations, invitationTokens, cache, clock, reqVars>>

\* ------------------------------- OrganizationService, UserService, authorize
\* OrganizationService.delete(id): no row of organizations is touched; every
\* user of the organization is set inactive and true is returned; an error of
\* the statement is caught and false is returned.
OrganizationService_delete(session, id) ==
  /\ \/ \E ctx \in PoolContexts :
          LET target == {u \in Visible("users", users, ctx) : u.organizationId = id}
          IN /\ users' = (users \ target) \cup {[u EXCEPT !.isActive = FALSE] : u \in target}
             /\ ret' = [op |-> "OrganizationService.delete", session |-> session,
                        id |-> id, kind |-> "true", rows |-> {}]
     \/ /\ UNCHANGED users
        /\ ret' = [op |-> "OrganizationService.delete", session |-> session,
                   id |-> id, kind |-> "false", rows |-> {}]
  /\ UNCHANGED <<rlsEnforced, extVars, connCtx, buildings, contracts, tenantContracts,
                 tickets, consumptionRecords, documents, clock, reqVars>>

\* UserService.update(id, organizationId, data) with data = {isActive}: the row
\* matched by id and organization is rewritten; deactivate / reactivate return
\* whether a row was updated.
UserService_setActive(session, op, id, organizationId, isActive) ==
  /\ \E ctx \in PoolContexts :
       LET target == {u \in Visible("users", users, ctx) :
                        u.id = id /\ u.organizationId = organizationId}
       IN /\ users' = (users \ target) \cup {[u EXCEPT !.isActive = isActive] : u \in target}
          /\ ret' = [op |-> op, session |-> session, id |-> id,
                     organizationId |-> organizationId,
                     kind |-> IF target = {} THEN "false" ELSE "true", rows |-> {}]
  /\ UNCHANGED <<rlsEnforced, extVars, connCtx, buildings, contracts, tenantContracts,
                 tickets, consumptionRecords, documents, clock, reqVars>>

UserService_deactivate(session, id, organizationId) ==
  UserService_setActive(session, "UserService.deactivate", id, organizationId, FALSE)

UserService_reactivate(session, id, organizationId) ==
  UserService_setActive(session, "UserService.reactivate", id, organizationId, TRUE)

\* mutant: authorize without the isActive test
authorize_rows_anyUser(credentials, ctx) ==
  IF credentials.email = NULL \/ credentials.password = NULL THEN {}
  ELSE {u \in Visible("users", users, ctx) : u.email = credentials.email}

\* authorize(credentials): null (no row) without email or password, for an
\* unknown email and for a user whose isActive is false; the user otherwise (any
\* password is accepted).
authorize_rows(credentials, ctx) ==
  IF credentials.email = NULL \/ credentials.password = NULL THEN {}
  ELSE {u \in Visible("users", users, ctx) : u.email = credentials.email /\ u.isActive}

authorize(credentials) ==
  /\ \E ctx \in PoolContexts :
       LET rows == authorize_rows(credentials, ctx)
       IN ret' = [op |-> "authorize", credentials |-> credentials,
                  kind |-> IF rows = {} THEN "null" ELSE "user", rows |-> rows]
  /\ UNCHANGED <<rlsEnforced, extVars, connCtx, tables, clock, reqVars>>

\* ------------------------------------------------------------------- Init
\* ------------------------------------------- MemoryCache, CachedServices
\* Date.now() moves on.
Tick ==
  /\ clock < MaxClock
  /\ clock' = clock + 1
  /\ UNCHANGED <<rlsEnforced, connCtx, tables, reqVars, extVars, ret>>

\* The time to live getUserDashboard passes to withCache (one minute), in ticks.
DashboardTTL == 1

\* CacheKeys.userDashboard(userId)
CacheKeys_userDashboard(userId) == "user:dashboard:" \o userId

\* Date.now() - entry.timestamp > entry.ttl
Expired(entry) == clock - entry.timestamp > entry.ttl

\* MemoryCache.get(key): the data of the live entry, or null (no data).
MemoryCache_get(key) ==
  UNION {e.data : e \in {x \in cache : x.key = key /\ ~Expired(x)}}

\* MemoryCache.set(key, data, ttl), cleanup included: the entry replaces the
\* key's, and every expired entry is dropped.
MemoryCache_set(entries, key, data, ttl) ==
  {e \in entries : e.key # key /\ ~Expired(e)}
    \cup {[key |-> key, data |-> data, timestamp |-> clock, ttl |-> ttl]}

\* UserService.getDashboardData(userId, organizationId): null when the user is
\* not found in the organization; otherwise the user with the counts for its
\* role (a result is held as a set: empty for null).
UserService_getDashboardData(userId, organizationId, ctx) ==
  { [user |-> u,
     ticketStats |-> IF u.role = "tenant"
                     THEN Cardinality({t \in Visible("tickets", tickets, ctx) :
                                         t.createdById = userId})
                     ELSE 0]
      : u \in {x \in Visible("users", users, ctx) :
                 x.id = userId /\ x.organizationId = organizationId} }

\* CachedServices.getUserDashboard(userId, organizationId): withCache under the
\* key of the user; a live non-null entry is returned, otherwise the operation
\* runs and its result is stored. get deletes the key's entry when it has expired.
CachedServices_getUserDashboard(session, userId, organizationId) ==
  /\ LET key == CacheKeys_userDashboard(userId)
         cached == MemoryCache_get(key)
         afterGet == {e \in cache : ~(e.key = key /\ Expired(e))}
     IN IF cached # {}
        THEN /\ cache' = afterGet
             /\ ret' = [op |-> "CachedServices.getUserDashboard", session |-> session,
                        userId |-> userId, organizationId |-> organizationId,
                        kind |-> "data", hit |-> TRUE, rows |-> cached]
        ELSE \E ctx \in PoolContexts :
               LET result == UserService_getDashboardData(userId, organizationId, ctx)
               IN /\ cache' = MemoryCache_set(afterGet, key, result, DashboardTTL)
                  /\ ret' = [op |-> "CachedServices.getUserDashboard", session |-> session,
                             userId |-> userId, organizationId |-> organizationId,
                             kind |-> IF result = {} THEN "null" ELSE "data",
                             hit |-> FALSE, rows |-> result]
  /\ UNCHANGED <<rlsEnforced, connCtx, tables, clock, reqVars, organizations,
                 invitationTokens, txn>>

\* The seed rows are inserted through the pool with no context (seeding.ts), so
\* they are stored only where the policies do not bind the pool's role.
Seeded(rows) == IF rlsEnforced THEN {} ELSE rows

InitCommon ==
  /\ rlsEnforced \in BOOLEAN
  /\ connCtx = [c \in Conns |-> NoContext]
  /\ users = Seeded(SeedUsers)
  /\ organizations = Seeded(SeedOrganizations)
  /\ invitationTokens = Seeded(SeedInvitations)
  /\ txn = NoTxn
  /\ cache = {}
  /\ buildings = {}
  /\ tenantContracts = {}
  /\ tickets = {}
  /\ consumptionRecords = {}
  /\ documents = {}
  /\ clock = 0
  /\ pc = [r \in Reqs |-> "idle"]
  /\ reqCtx = [r \in Reqs |-> NoContext]
  /\ carrier = [r \in Reqs |-> 0]
  /\ outcome = [r \in Reqs |-> "none"]
  /\ ret = NoRet

Init ==
  /\ InitCommon
  /\ contracts = Seeded(SeedContracts)

\* ------------------------------------------------ SpecRLS: context helpers
\* One request at a time runs withRLSContext around an unfiltered read, while
\* buildings are created and listed through BuildingService.
NextRLS ==
  \/ \E s \in Sessions : withRLSContext_call("r1", s)
  \/ setRLSContext("r1")
  \/ operation("r1")
  \/ clearRLSContext("r1")
  \/ withRLSContext_return("r1")
  \/ LaterQuery
  \/ \E s \in Sessions, o \in Orgs : BuildingService_create(s, [organizationId |-> o])
  \/ \E s \in Sessions : BuildingService_getByOrganization(s, s.organizationId)

SpecRLS == Init /\ [][NextRLS]_vars

\* --------------------------------------------- SpecTickets: ticket reads
\* Tenants create tickets (the organization id is a field of the submitted data),
\* tenants are linked to contract c1, and every session reads tickets through
\* getById, getByOrganization, getStats and search, passing its own role and
\* either its own user id or none.
TenantSessions == {s \in Sessions : s.userRole = "tenant"}

NewTicketData(session, org, contractId) ==
  [organizationId |-> org, contractId |-> contractId, createdById |-> session.userId,
   title |-> "t0", description |-> "d0", priority |-> NULL, status |-> NULL]

NoOptions ==
  [status |-> NULL, priority |-> NULL, contractId |-> NULL, createdById |-> NULL,
   assignedToId |-> NULL, userId |-> NULL, userRole |-> NULL]

TicketIdsInUse == {t.id : t \in tickets}

NextTickets ==
  \/ \E s \in TenantSessions, o \in Orgs, k \in {NULL, "c1"} :
       TicketService_create(s, NewTicketData(s, o, k))
  \/ \E s \in Sessions, t \in TenantIds :
       ContractService_addTenant(s, "c1", s.organizationId,
                                 [tenantId |-> t, percentage |-> 100])
  \/ \E s \in Sessions : \E id \in TicketIdsInUse, u \in {s.userId, NULL} :
       TicketService_getById(s, id, s.organizationId, u, s.userRole)
  \/ \E s \in Sessions : \E u \in {s.userId, NULL}, k \in {NULL, "c1"} :
       TicketService_getByOrganization(s, s.organizationId,
         [NoOptions EXCEPT !.userId = u, !.userRole = s.userRole, !.contractId = k])
  \/ \E s \in Sessions : \E u \in {s.userId, NULL} :
       TicketService_getStats(s, s.organizationId, u, s.userRole)
  \/ \E s \in Sessions : \E u \in {s.userId, NULL}, term \in {"", "t0"} :
       TicketService_search(s, s.organizationId, term, u, s.userRole)

SpecTickets == Init /\ [][NextTickets]_vars

\* The contracts a user is linked to through TenantContract rows.
LinkedContracts(userId) ==
  {tc.contractId : tc \in {x \in tenantContracts : x.tenantId = userId}}

TicketReadOps ==
  {"TicketService.getById", "TicketService.getByOrganization",
   "TicketService.getStats", "TicketService.search"}

\* C7 (as claimed): every ticket returned or counted by getById,
\* getByOrganization, getStats or search for a caller with userRole = 'tenant' is
\* in the given organization and was created by the calling user or belongs to
\* one of the calling user's linked contracts, also when userId is omitted.
C7_TenantPredicateAlways ==
  (ret.op \in TicketReadOps /\ ret.userRole = "tenant")
    => \A t \in ret.rows :
         /\ t.organizationId = ret.organizationId
         /\ \/ t.createdById = ret.session.userId
            \/ t.contractId \in LinkedContracts(ret.session.userId)

CreateOps ==
  {"TicketService.create", "ContractService.create", "ConsumptionService.create",
   "DocumentService.create"}

\* C9 (as claimed): a row inserted by an entity service create carries the
\* organizationId of the authenticated context of the request.
C9_CreateUsesContextOrg ==
  (ret.op \in CreateOps /\ ret.kind = "row")
    => \A row \in ret.rows : row.organizationId = ret.session.organizationId

\* ------------------------------------------ SpecTicketUpdate: ticket writes
\* Tenants t1 and t2 create tickets, t1 is linked to contract c1, and patches are
\* submitted for ticket ids that exist and ids that do not: by tenant t1 with
\* their id and role, and by the admins of both organizations (who pass neither).
UpdatableIds == {"k" \o ToString(i) : i \in 1..(MaxUpdatedTickets + 1)}
UserById(id) == CHOOSE u \in SeedUsers : u.id = id

Patches ==
  { [status |-> "closed", title |-> "hacked"],
    [description |-> "d1"],
    [status |-> "closed", title |-> "hacked", description |-> "d1"] }

NextTicketUpdate ==
  \/ \E s \in TenantSessions, k \in {NULL, "c1"} :
       /\ Cardinality(tickets) < MaxUpdatedTickets
       /\ TicketService_create(s, NewTicketData(s, s.organizationId, k))
  \/ \E s \in Sessions :
       ContractService_addTenant(s, "c1", s.organizationId,
                                 [tenantId |-> "t1", percentage |-> 100])
  \/ \E id \in UpdatableIds, p \in Patches :
       \/ TicketService_update(createRLSContext(UserById("t1")), id, "orgA", p, "t1", "tenant")
       \/ \E a \in {"adminA", "adminB"} :
            TicketService_update(createRLSContext(UserById(a)), id,
                                 UserById(a).organizationId, p, NULL, NULL)

SpecTicketUpdate == Init /\ [][NextTicketUpdate]_vars

UpdateMissing(call) == \A t \in tickets : t.id # call.id
UpdateOtherOrg(call) ==
  \E t \in tickets : t.id = call.id /\ t.organizationId # call.organizationId
UpdateOutsideTenantView(call) ==
  /\ call.userRole = "tenant"
  /\ call.userId # NULL
  /\ \E t \in tickets :
       /\ t.id = call.id
       /\ t.organizationId = call.organizationId
       /\ t.createdById # call.userId
       /\ t.contractId \notin LinkedContracts(call.userId)

NewRecordData ==
  { [organizationId |-> "orgA", contractId |-> "c1", consumptionType |-> "water",
     period |-> "2024-01"],
    [organizationId |-> "orgA", contractId |-> "c2", consumptionType |-> "water",
     period |-> "2024-02"],
    [organizationId |-> "orgB", contractId |-> "c3", consumptionType |-> "water",
     period |-> "2024-01"] }

NoRecordOptions ==
  [contractId |-> NULL, consumptionType |-> NULL, period |-> NULL,
   startPeriod |-> NULL, endPeriod |-> NULL, userId |-> NULL, userRole |-> NULL]

RecordIdsInUse == {x.id : x \in consumptionRecords}

NextConsumption ==
  \/ \E s \in Sessions \ TenantSessions, d \in NewRecordData :
       /\ d.organizationId = s.organizationId
       /\ ConsumptionService_create(s, d)
  \/ \E s \in Sessions, k \in {"c1", "c2"} :
       ContractService_addTenant(s, k, s.organizationId,
                                 [tenantId |-> "t1", percentage |-> 100])
  \/ \E s \in Sessions : \E id \in RecordIdsInUse :
       ConsumptionService_getById(s, id, s.organizationId, s.userId, s.userRole)
  \/ \E s \in Sessions : \E k \in {NULL, "c1", "c2"}, sp \in {NULL, "2024-02"} :
       ConsumptionService_getRecords(s, s.organizationId,
         [NoRecordOptions EXCEPT !.userId = s.userId, !.userRole = s.userRole,
                                 !.contractId = k, !.startPeriod = sp])
  \/ \E s \in TenantSessions :
       QueryBuilder_getTenantConsumptionSummary(s, s.userId, s.organizationId,
                                                NoRecordOptions)

SpecConsumption == Init /\ [][NextConsumption]_vars

\* C2: ConsumptionService.getRecords and getById called with userRole = 'tenant'
\* and userId = T return only records of contracts T is linked to through a
\* TenantContract row, whatever the filters.
C2_TenantSeesOnlyLinkedConsumption ==
  (/\ ret.op \in {"ConsumptionService.getRecords", "ConsumptionService.getById"}
   /\ ret.userRole = "tenant"
   /\ ret.userId # NULL)
    => \A rec \in ret.rows : rec.contractId \in LinkedContracts(ret.userId)

\* C2 witness: a tenant listed records with no contract filter and got some, while
\* the organization also stores a record of a contract the tenant is not linked to.
C2_Witness ==
  /\ ret.op = "ConsumptionService.getRecords"
  /\ ret.userRole = "tenant"
  /\ ret.userId # NULL
  /\ ret.options.contractId = NULL
  /\ ret.rows # {}
  /\ \E rec \in consumptionRecords :
       /\ rec.organizationId = ret.organizationId
       /\ rec.contractId \notin LinkedContracts(ret.userId)

\* C4 (as claimed): for a tenant with no linked contract every contract-scoped
\* list query returns an empty sequence: getRecords and
\* getTenantConsumptionSummary return a sequence with no rows, and
\* TicketService.getByOrganization returns no ticket through its contract branch.
C4_EmptyContractSetGivesEmptySequence ==
  /\ (/\ ret.op = "ConsumptionService.getRecords"
      /\ ret.userRole = "tenant" /\ ret.userId # NULL
      /\ LinkedContracts(ret.userId) = {})
        => (ret.kind = "rows" /\ ret.rows = {})
  /\ (/\ ret.op = "QueryBuilder.getTenantConsumptionSummary"
      /\ LinkedContracts(ret.userId) = {})
        => (ret.kind = "rows" /\ ret.rows = {})
  /\ (/\ ret.op = "TicketService.getByOrganization"
      /\ ret.userRole = "tenant" /\ ret.userId # NULL
      /\ LinkedContracts(ret.userId) = {})
        => (ret.kind = "rows" /\ \A t \in ret.rows : t.createdById = ret.userId)

\* ------------------------------------------- SpecDocuments: document reads
\* Users upload documents (public or not, attached to a contract or a ticket or
\* to nothing), tenant t1 files tickets and is linked to contract c1, and every
\* session reads documents.
NewDocumentData(session) ==
  { [organizationId |-> session.organizationId, uploadedById |-> session.userId,
     contractId |-> k, ticketId |-> NULL, category |-> "document", isPublic |-> p] :
       k \in {NULL, "c1"}, p \in BOOLEAN }
  \cup { [organizationId |-> session.organizationId, uploadedById |-> session.userId,
          contractId |-> NULL, ticketId |-> "k1", category |-> "photo"] }

NoDocumentOptions ==
  [category |-> NULL, contractId |-> NULL, ticketId |-> NULL, userId |-> NULL,
   userRole |-> NULL]

DocumentIdsInUse == {x.id : x \in documents}

NextDocuments ==
  \/ \E s \in {x \in Sessions : x.userId # "t1"} :
       \E d \in NewDocumentData(s) :
         /\ d.contractId # NULL => s.userRole # "tenant"
         /\ DocumentService_create(s, d)
  \/ \E s \in {x \in TenantSessions : x.userId = "t1"} :
       TicketService_create(s, NewTicketData(s, s.organizationId, NULL))
  \/ \E s \in Sessions \ TenantSessions :
       ContractService_addTenant(s, "c1", s.organizationId,
                                 [tenantId |-> "t1", percentage |-> 100])
  \/ \E s \in Sessions : \E id \in DocumentIdsInUse :
       DocumentService_getById(s, id, s.organizationId, s.userId, s.userRole)
  \/ \E s \in Sessions : \E o \in {NoDocumentOptions,
                                   [isPublic |-> FALSE] @@ NoDocumentOptions} :
       DocumentService_getDocuments(s, s.organizationId,
         [o EXCEPT !.userId = s.userId, !.userRole = s.userRole])

SpecDocuments == Init /\ [][NextDocuments]_vars

\* C3: for every stored document D with isPublic = true and every tenant user of
\* D's organization, DocumentService.getById(D.id, D.organizationId, tenantId,
\* 'tenant') returns D, whoever uploaded it and whether or not the tenant holds a
\* contract or created a ticket.
C3_PublicDocumentReadable ==
  \A D \in documents : \A u \in users :
    (D.isPublic = TRUE /\ u.role = "tenant" /\ u.organizationId = D.organizationId)
      => /\ \A ctx \in PoolContexts :
              DocumentService_getById_rows(D.id, D.organizationId, u.id, "tenant", ctx)
                = {D}
         /\ (/\ ret.op = "DocumentService.getById"
             /\ ret.id = D.id /\ ret.organizationId = D.organizationId
             /\ ret.userId = u.id /\ ret.userRole = "tenant")
               => (ret.kind = "row" /\ ret.rows = {D})

\* C3 witness: a tenant with no contract and no ticket read a public document that
\* somebody else uploaded and that is attached to no contract or ticket, and got it.
C3_Witness ==
  /\ ret.op = "DocumentService.getById"
  /\ ret.userRole = "tenant"
  /\ ret.userId # NULL
  /\ LinkedContracts(ret.userId) = {}
  /\ \A t \in tickets : t.createdById # ret.userId
  /\ \E D \in documents :
       /\ D.id = ret.id /\ D.organizationId = ret.organizationId
       /\ D.isPublic = TRUE
       /\ D.uploadedById # ret.userId
       /\ D.contractId = NULL /\ D.ticketId = NULL
       /\ ret.rows = {D}

\* C28 (as claimed): for every tenant context and every stored document, the
\* policy documents_isolation admits the document exactly when the WHERE clause
\* of DocumentService.getById / getDocuments for that tenant admits it.
C28_DocumentPolicyEqualsPredicate ==
  \A s \in TenantSessions : \A d \in documents :
    documents_isolation(d, s)
      <=> /\ d.organizationId = s.organizationId
          /\ DocumentTenantCondition(d, s.userId, s.userRole, s)

\* ----------------------------------------- SpecContracts: contract reads
\* A request of tenant t1 or of admin adminA runs inside withRLSContext and reads
\* contracts between the set and the clear of the context; admins add contracts
\* and link t1 to contracts of orgA.
ContractReaders == {s \in Sessions : s.userId \in {"t1", "adminA"}}

NextContracts ==
  \/ \E s \in ContractReaders : withRLSContext_call("r1", s)
  \/ setRLSContext("r1")
  \/ \E id \in {x.id : x \in contracts} :
       /\ pc["r1"] = "operation"
       /\ ContractService_getById(reqCtx["r1"], id, reqCtx["r1"].organizationId)
  \/ \E id \in {x.id : x \in contracts} :
       /\ pc["r1"] = "operation"
       /\ ContractService_getWithDetails(reqCtx["r1"], id, reqCtx["r1"].organizationId)
  \/ \E o \in {[buildingId |-> NULL], [buildingId |-> NULL, isActive |-> TRUE]} :
       /\ pc["r1"] = "operation"
       /\ ContractService_getByOrganization(reqCtx["r1"], reqCtx["r1"].organizationId, o)
  \/ operation("r1")
  \/ clearRLSContext("r1")
  \/ withRLSContext_return("r1")
  \/ \E s \in {x \in Sessions : x.userId = "adminA"} :
       ContractService_create(s, [organizationId |-> s.organizationId,
                                  buildingId |-> "bA", isActive |-> FALSE])
  \/ \E s \in {x \in Sessions : x.userId = "adminA"}, k \in {"c1", "c2"} :
       ContractService_addTenant(s, k, s.organizationId,
                                 [tenantId |-> "t1", percentage |-> 100])

SpecContracts == Init /\ [][NextContracts]_vars

ContractReadOps ==
  {"ContractService.getById", "ContractService.getWithDetails",
   "ContractService.getByOrganization"}

\* C8 (as claimed): under a tenant context, ContractService.getById,
\* getWithDetails and getByOrganization return a contract only if its
\* organizationId matches the context and its id is among the contracts linked
\* to the tenant's userId through TenantContract.
C8_TenantReadsOnlyLinkedContracts ==
  (ret.op \in ContractReadOps /\ ret.session.userRole = "tenant")
    => \A c \in ret.rows :
         /\ c.organizationId = ret.session.organizationId
         /\ c.id \in LinkedContracts(ret.session.userId)

\* ------------------------------- SpecConcurrent: two requests on one pool
\* Two requests run withRLSContext at the same time on the shared pool, r1 for
\* the admin of orgA and r2 for the admin of orgB; their statements interleave
\* freely and each may be handed to any pooled connection.
ConcurrentSession(r) ==
  CHOOSE s \in Sessions : s.userId = (IF r = "r1" THEN "adminA" ELSE "adminB")

NextConcurrent ==
  \/ \E r \in Reqs : withRLSContext_call(r, ConcurrentSession(r))
  \/ \E r \in Reqs : setRLSContext(r)
  \/ \E r \in Reqs : operation(r)
  \/ \E r \in Reqs : clearRLSContext(r)
  \/ \E r \in Reqs : withRLSContext_return(r)
  \/ \E r \in Reqs :
       BuildingService_create(ConcurrentSession(r),
                              [organizationId |-> ConcurrentSession(r).organizationId])

SpecConcurrent == Init /\ [][NextConcurrent]_vars

\* C11 (as claimed): with two concurrent requests that establish different
\* contexts on the shared pool, every query a request issues inside
\* withRLSContext is evaluated under that request's own (organizationId, userId,
\* userRole) and never under the other request's.
C11_QueriesUnderOwnContext ==
  (ret.op = "db.select(buildings)" /\ ret.phase = "operation")
    => /\ ret.evalCtx = ret.session
       /\ ret.evalCtx \notin (Sessions \ {ret.session})

\* ------------------------------- SpecOnboarding: tenant onboarding, links
\* Tenant onboarding runs as a transaction, with a known or unknown invitation
\* token, a fresh or taken email, an existing or missing contract and either
\* organization; admins link users to contract c1 through addTenant.
OnboardingData ==
  { [organizationId |-> o, contractId |-> k,
     tenantData |-> [email |-> e, name |-> "n"], invitationToken |-> t] :
       o \in Orgs, k \in {"c1", "c9"}, e \in {"new@x", "t1@x"}, t \in {"tokA", "tokX"} }

NextOnboarding ==
  \/ \E d \in OnboardingData : createTenantWithContract_call(d)
  \/ createTenantWithContract_insertUser
  \/ createTenantWithContract_insertLink
  \/ createTenantWithContract_markInvitation
  \/ createTenantWithContract_commit
  \/ tx_rollback
  \/ \E s \in Sessions \ TenantSessions, u \in {"t1", "adminB"}, pct \in {60, 100} :
       ContractService_addTenant(s, "c1", s.organizationId,
                                 [tenantId |-> u, percentage |-> pct])

SpecOnboarding == Init /\ [][NextOnboarding]_vars

\* C12 (as claimed): createTenantWithContract is all-or-nothing: a step of it
\* either commits all three effects together (a new tenant user, a new
\* TenantContract, the invitation's usedAt set) or changes no table at all.
C12_OnboardingAllOrNothing ==
  [][ (txn.pc # "idle" /\ txn.op = "createTenantWithContract" /\ txn' # txn)
        => \/ /\ \E u \in users' \ users : u.role = "tenant"
              /\ \E l \in tenantContracts' \ tenantContracts : TRUE
              /\ \E t \in invitationTokens' :
                   t.token = txn.data.invitationToken /\ t.usedAt # NULL
           \/ UNCHANGED <<tables, invitationTokens>> ]_vars

\* SUM(CAST(percentage AS DECIMAL)) over a set of tenant_contracts rows.
RECURSIVE SumPercentage(_)
SumPercentage(rows) ==
  IF rows = {} THEN 0
  ELSE LET r == CHOOSE x \in rows : TRUE
       IN r.percentage + SumPercentage(rows \ {r})

\* The total percentage linked to a contract (IntegrityTest.testDataConsistency).
totalPercentage(contractId) ==
  SumPercentage({tc \in tenantContracts : tc.contractId = contractId})

\* C14 (as claimed): addTenant calls against the same contract whose percentages
\* together with the existing links exceed 100 never all succeed: whenever an
\* addTenant call has returned a link, the percentages linked to that contract
\* sum to at most 100.
C14_PercentageSumAtMost100 ==
  (ret.op = "ContractService.addTenant" /\ ret.kind = "row")
    => \A l \in ret.rows : totalPercentage(l.contractId) <= 100

\* C19 (as claimed): every TenantContract row has the organizationId of the
\* contract it references and of the user it references, and that user has role
\* 'tenant', after any sequence of addTenant and createTenantWithContract calls.
C19_NoCrossOrganizationLink ==
  \A tc \in tenantContracts :
    /\ \A c \in contracts : c.id = tc.contractId => c.organizationId = tc.organizationId
    /\ \A u \in users :
         u.id = tc.tenantId => (u.organizationId = tc.organizationId /\ u.role = "tenant")

\* C30 (as claimed): an onboarding commits a tenant user and a TenantContract
\* only when the given token is stored, unused and issued for the given
\* organization and contract, and a usedAt that is set is never overwritten.
C30_TokenConsumedAtMostOnce ==
  [][ (txn.pc = "commit" /\ txn.op = "createTenantWithContract" /\ txn' = NoTxn)
        => /\ \E t \in invitationTokens :
                /\ t.token = txn.data.invitationToken
                /\ t.usedAt = NULL
                /\ t.organizationId = txn.data.organizationId
                /\ t.contractId = txn.data.contractId
           /\ \A t \in invitationTokens : t.usedAt # NULL => t \in invitationTokens' ]_vars

\* ------------------------------------- SpecTicketStatus: ticket lifecycle
\* Tenants file tickets and the admin of orgA moves them through updateStatus
\* (with or without an explicit resolution time), assign and update.
TicketStatuses == {"open", "in_progress", "waiting_for_tenant", "resolved", "closed"}

StatusAdmin == createRLSContext(UserById("adminA"))

NextTicketStatus ==
  \/ \E s \in TenantSessions, k \in {NULL, "c1"} :
       TicketService_create(s, NewTicketData(s, s.organizationId, k))
  \/ \E id \in TicketIdsInUse, st \in TicketStatuses, at \in {NULL, "0"} :
       TicketService_updateStatus(StatusAdmin, id, "orgA", st, at)
  \/ \E id \in TicketIdsInUse, a \in {NULL, "adminA"} :
       TicketService_assign(StatusAdmin, id, "orgA", a)
  \/ \E id \in TicketIdsInUse :
       TicketService_update(StatusAdmin, id, "orgA", [status |-> "resolved"], NULL, NULL)

SpecTicketStatus == Init /\ [][NextTicketStatus]_vars

LifecycleMoves ==
  { <<"open", "in_progress">>, <<"in_progress", "waiting_for_tenant">>,
    <<"waiting_for_tenant", "in_progress">>, <<"in_progress", "resolved">>,
    <<"resolved", "closed">>, <<"resolved", "open">>, <<"closed", "open">> }

RoundTripData(session) ==
  { NewTicketData(session, session.organizationId, NULL),
    [NewTicketData(session, session.organizationId, NULL)
       EXCEPT !.status = "in_progress", !.priority = "high"] }

NextTicketRoundTrip ==
  \/ \E s \in TenantSessions : \E d \in RoundTripData(s) : TicketService_create(s, d)
  \/ ContractService_addTenant(StatusAdmin, "c1", "orgA",
                               [tenantId |-> "t2", percentage |-> 100])
  \/ \E s \in TenantSessions : \E id \in TicketIdsInUse :
       TicketService_getById(s, id, s.organizationId, s.userId, s.userRole)

SpecTicketRoundTrip == Init /\ [][NextTicketRoundTrip]_vars

Credentials ==
  { [email |-> e, password |-> "pw"] : e \in {u.email : u \in SeedUsers} \cup {"none@x"} }
  \cup { [email |-> "t1@x", password |-> NULL] }

CredentialsOf(u) == [email |-> u.email, password |-> "pw"]

NextOrganization ==
  \/ \E s \in Sessions \ TenantSessions, o \in Orgs : OrganizationService_delete(s, o)
  \/ \E s \in Sessions \ TenantSessions, u \in UserIds :
       UserService_deactivate(s, u, s.organizationId)
  \/ \E s \in Sessions \ TenantSessions, u \in UserIds :
       UserService_reactivate(s, u, s.organizationId)
  \/ \E c \in Credentials : authorize(c)

SpecOrganization == Init /\ [][NextOrganization]_vars

BuildingAdmin == createRLSContext(UserById("adminA"))
BuildingTenant == createRLSContext(UserById("t1"))

NextBuildings ==
  \/ BuildingService_create(BuildingAdmin, [organizationId |-> "orgA"])
  \/ ContractService_create(BuildingAdmin, [organizationId |-> "orgA", buildingId |-> "b1"])
  \/ \E a \in BOOLEAN : ContractService_toggleActive(BuildingAdmin, "n1", "orgA", a)
  \/ /\ tickets = {}
     /\ TicketService_create(BuildingTenant,
                             NewTicketData(BuildingTenant, "orgA", NULL)
                               @@ [buildingId |-> "b1"])
  \/ DocumentService_create(BuildingTenant,
                            [organizationId |-> "orgA", uploadedById |-> "t1",
                             contractId |-> NULL, ticketId |-> NULL,
                             category |-> "document", buildingId |-> "b1"])
  \/ \E id \in {"b1", "b2"} : BuildingService_delete_call(BuildingAdmin, id, "orgA")
  \/ BuildingService_delete_countActive
  \/ BuildingService_delete_deleteBuilding
  \/ \E id \in {"b1", "b2"}, o \in Orgs : deleteBuildingWithCleanup_call(id, o)
  \/ deleteBuildingWithCleanup_checkContracts
  \/ deleteBuildingWithCleanup_deleteDocuments
  \/ deleteBuildingWithCleanup_closeTickets
  \/ deleteBuildingWithCleanup_deleteBuilding
  \/ tx_rollback

SpecBuildings == Init /\ [][NextBuildings]_vars

BuildingRemovals == {"BuildingService.delete", "deleteBuildingWithCleanup"}

\* C18: a building that an active contract references is not removed: when
\* either removal finds an active contract on its target it fails (false from
\* BuildingService.delete, a thrown error and a rollback from
\* deleteBuildingWithCleanup) with the building, the documents and the tickets
\* unchanged, and after every step each active contract's building exists.
C18_ActiveContractKeepsBuilding ==
  [][ /\ \A c \in contracts' : c.isActive => c.buildingId \in BuildingIds'
      /\ (/\ txn.pc \in {"countActive", "checkContracts"}
          /\ txn' # txn
          /\ \E c \in contracts : c.isActive /\ c.buildingId = txn.data.buildingId)
            => /\ UNCHANGED <<buildings, documents, tickets>>
               /\ \/ txn' = NoTxn /\ ret'.op = txn.op /\ ret'.kind = "false"
                  \/ txn'.pc = "rollback"
      /\ (txn.pc = "rollback" /\ txn.op \in BuildingRemovals /\ txn' # txn)
            => /\ UNCHANGED <<buildings, documents, tickets>>
               /\ ret'.op = txn.op /\ ret'.kind = "error" ]_vars

\* C18 witness: deleteBuildingWithCleanup has thrown for a stored building that
\* an active contract references and that has a ticket.
C18_Witness ==
  /\ ret.op = "deleteBuildingWithCleanup"
  /\ ret.kind = "error"
  /\ \E b \in buildings :
       /\ b.id = ret.data.buildingId
       /\ \E c \in contracts : c.isActive /\ c.buildingId = b.id
       /\ \E t \in tickets : building_id(t) = b.id

\* ------------------------------- SpecTransactionRLS: withTransactionAndRLS
\* Calls of withTransactionAndRLS for every session, one at a time, while the
\* admins add buildings.
NextTransactionRLS ==
  \/ \E s \in Sessions : withTransactionAndRLS_call(s)
  \/ withTransactionAndRLS_setRLSContext
  \/ withTransactionAndRLS_callback
  \/ withTransactionAndRLS_commit
  \/ tx_rollback
  \/ \E s \in {x \in Sessions : x.userRole = "landlord_admin"} :
       BuildingService_create(s, [organizationId |-> s.organizationId])

SpecTransactionRLS == Init /\ [][NextTransactionRLS]_vars

\* C13 (as claimed): a statement the callback issues through tx is evaluated
\* with exactly the context given to withTransactionAndRLS, and once no
\* transaction is in flight no pooled connection carries a context.
C13_TransactionContext ==
  /\ ret.op = "tx.select(buildings)" => ret.evalCtx = ret.session
  /\ txn.pc = "idle" => \A c \in Conns : connCtx[c] = NoContext

\* C26 (as claimed): deleteBuildingWithCleanup called with an organizationId
\* that does not own the building deletes no document, closes no ticket and
\* deletes no building.
C26_WrongOrganizationChangesNothing ==
  [][ (/\ txn.pc # "idle"
       /\ txn.op = "deleteBuildingWithCleanup"
       /\ txn' # txn
       /\ \E b \in buildings : /\ b.id = txn.data.buildingId
                               /\ b.organizationId # txn.data.organizationId)
        => UNCHANGED <<buildings, documents, tickets>> ]_vars

\* ------------------------------------ SpecTermination: terminateContract
\* Tenant t1 files tickets on contracts c1 and c2 while no termination is in
\* flight; contract c1 is terminated under either organization, with no reason,
\* an empty reason or a reason, by the admin of orgA or by an unknown user.
TerminationData ==
  { [endDate |-> "e1", terminatedById |-> "adminA", reason |-> r] :
      r \in {NULL, "", "moved out"} }
  \cup { [endDate |-> "e1", terminatedById |-> "nobody", reason |-> "moved out"] }

NextTermination ==
  \/ \E k \in {"c1", "c2"}, st \in {NULL, "in_progress"} :
       /\ txn.pc = "idle"
       /\ TicketService_create(BuildingTenant, [NewTicketData(BuildingTenant, "orgA", k)
                                                  EXCEPT !.status = st])
  \/ \E o \in Orgs, d \in TerminationData : terminateContract_call("c1", o, d)
  \/ terminateContract_updateContract
  \/ terminateContract_closeTickets
  \/ terminateContract_insertDocument
  \/ terminateContract_commit
  \/ tx_rollback

SpecTermination == Init /\ [][NextTermination]_vars

NextUnits ==
  \/ \E u \in {"u1", "u2"}, a \in BOOLEAN :
       ContractService_create(BuildingAdmin,
                              [organizationId |-> "orgA", buildingId |-> "bA",
                               unitNumber |-> u, isActive |-> a])
  \/ \E id \in {"n1", "n2"}, a \in BOOLEAN :
       ContractService_toggleActive(BuildingAdmin, id, "orgA", a)
  \/ \E u \in {"u1", "u2"}, x \in {NULL, "n1"} :
       ContractService_isUnitAvailable(BuildingAdmin, "bA", u, "orgA", x)

SpecUnits == Init /\ [][NextUnits]_vars

\* C23 (as claimed): for each building and unit number at most one contract is
\* active.
C23_OneActiveContractPerUnit ==
  \A c1 \in contracts : \A c2 \in contracts :
    (/\ unit_number(c1) # NULL
     /\ c1.buildingId = c2.buildingId /\ unit_number(c1) = unit_number(c2)
     /\ c1.isActive /\ c2.isActive)
      => c1 = c2

\* --------------------------------------- SpecAggregates: counts and sums
\* Tenants file tickets (naming either organization, as TicketService.create
\* takes the organization from its data), t1 is linked to contract c1, the
\* admins record consumption, and every session reads its aggregates with its
\* own user id, role and organization.
NextAggregates ==
  \/ \E s \in TenantSessions, o \in Orgs :
       TicketService_create(s, NewTicketData(s, o, NULL))
  \/ ContractService_addTenant(BuildingAdmin, "c1", "orgA",
                               [tenantId |-> "t1", percentage |-> 100])
  \/ \E s \in Sessions \ TenantSessions, d \in NewRecordData :
       /\ d.organizationId = s.organizationId
       /\ ConsumptionService_create(s, d)
  \/ \E s \in Sessions : TicketService_getStats(s, s.organizationId, s.userId, s.userRole)
  \/ \E s \in Sessions, k \in {"c1", "c2"} :
       ConsumptionService_getAnalytics(s, k, s.organizationId,
         [NoRecordOptions EXCEPT !.userId = s.userId, !.userRole = s.userRole])
  \/ \E s \in TenantSessions :
       QueryBuilder_getTenantDashboard(s, s.userId, s.organizationId)

SpecAggregates == Init /\ [][NextAggregates]_vars

\* The list queries of the caller named in ret, read on connection settings ctx.
ListedTickets(ctx) ==
  TicketService_getByOrganization_rows(
    ret.organizationId,
    [NoOptions EXCEPT !.userId = ret.userId, !.userRole = ret.userRole], ctx)

ListedRecords(ctx) ==
  ConsumptionService_getRecords_rows(
    ret.organizationId,
    [NoRecordOptions EXCEPT !.userId = ret.userId, !.userRole = ret.userRole], ctx)

BulkRecords ==
  { [contractId |-> "c1", consumptionType |-> "water", period |-> "2024-01",
     reading |-> r] : r \in {"10", "20"} }
  \cup { [contractId |-> "c3", consumptionType |-> "water", period |-> "2024-01",
          reading |-> "10"] }

Batches == UNION {[1..n -> BulkRecords] : n \in 1..MaxBatch}

NextBulk ==
  \/ \E o \in Orgs, b \in Batches : createBulkConsumptionRecords_call(o, b)
  \/ createBulkConsumptionRecords_record
  \/ createBulkConsumptionRecords_commit
  \/ tx_rollback

SpecBulk == Init /\ [][NextBulk]_vars

BulkKey(rec) == <<rec.contractId, rec.consumptionType, rec.period>>

\* C25: after every createBulkConsumptionRecords call there is at most one
\* record per (contractId, consumptionType, period), also when the batch
\* repeats a key; a call that repeats the call before it adds no row and
\* reports every record as 'updated'.
C25_BulkIsRetrySafe ==
  [][ /\ \A r1 \in consumptionRecords' : \A r2 \in consumptionRecords' :
           BulkKey(r1) = BulkKey(r2) => r1 = r2
      /\ (/\ txn.pc = "record" /\ txn' = NoTxn
          /\ ret.op = "createBulkConsumptionRecords" /\ ret.kind = "ok"
          /\ ret.data = txn.data)
            => /\ {r.id : r \in consumptionRecords'} = {r.id : r \in consumptionRecords}
               /\ \A k \in DOMAIN ret'.createdRecords : ret'.createdRecords[k] = "updated"
               /\ Len(ret'.createdRecords) = Len(txn.data.records) ]_vars

\* C25 witness: a batch that names one key twice has been committed a second
\* time in a row; the table holds the key's record.
C25_Witness ==
  /\ ret.op = "createBulkConsumptionRecords"
  /\ ret.kind = "ok"
  /\ Len(ret.data.records) = 2
  /\ BulkKey(ret.data.records[1]) = BulkKey(ret.data.records[2])
  /\ ret.createdRecords = <<"updated", "updated">>
  /\ \E r \in consumptionRecords : BulkKey(r) = BulkKey(ret.data.records[1])

\* The organization of the contract a record belongs to.
ContractOrganization(contractId) ==
  {c.organizationId : c \in {x \in contracts : x.id = contractId}}

\* C27 (as claimed): createBulkConsumptionRecords(organizationId, records)
\* changes no record of another organization and stores no record for a
\* contract of another organization.
C27_BulkStaysInOrganization ==
  [][ (txn.pc = "record" /\ txn' = NoTxn)
        => /\ \A r \in consumptionRecords :
                r.organizationId # txn.data.organizationId => r \in consumptionRecords'
           /\ \A r \in consumptionRecords' :
                r.id \notin {x.id : x \in consumptionRecords}
                  => ContractOrganization(r.contractId) = {txn.data.organizationId} ]_vars

\* ------------------------------------------ SpecCache: cached dashboards
\* Dashboards of adminA and t1 are requested under either organization while
\* time passes and t1 files tickets.
NextCache ==
  \/ \E s \in Sessions, u \in {"adminA", "t1"}, o \in Orgs :
       CachedServices_getUserDashboard(s, u, o)
  \/ Tick
  \/ TicketService_create(BuildingTenant, NewTicketData(BuildingTenant, "orgA", NULL))

SpecCache == Init /\ [][NextCache]_vars

\* C29 (as claimed): getUserDashboard(userId, organizationId) returns a result
\* only if the user belongs to organizationId.
C29_CacheKeepsOrganizations ==
  (ret.op = "CachedServices.getUserDashboard" /\ ret.rows # {})
    => \E u \in users : u.id = ret.userId /\ u.organizationId = ret.organizationId

\* C1 (as claimed): a landlord_admin of organization A who lists Buildings, through
\* BuildingService.getByOrganization(A) or through an unfiltered read of the
\* buildings table issued after setRLSContext for A, gets only rows of A.
C1_BuildingIsolation ==
  /\ (/\ ret.op = "BuildingService.getByOrganization"
      /\ ret.session.userRole = "landlord_admin")
        => \A b \in ret.rows : b.organizationId = ret.session.organizationId
  /\ (/\ ret.op = "db.select(buildings)"
      /\ ret.phase = "operation"
      /\ ret.session.userRole = "landlord_admin")
        => \A b \in ret.rows : b.organizationId = ret.session.organizationId

====
